---- MODULE Spec2Model ----
(***************************************************************************)
(* A model of the item-code decoders and CSV importers of the cabinet      *)
(* quoting system (database/scripts).                                      *)
(*                                                                         *)
(* Strings are sequences of one-character strings, so that the regular     *)
(* expressions, str.replace, str.endswith and int() of the scripts are     *)
(* computed character by character.  Python's None is the empty tuple      *)
(* None; an optional number n that is set is the one-element tuple         *)
(* Some(n).  A type code that is set is a non-empty character sequence.    *)
(***************************************************************************)
EXTENDS Integers, Sequences, FiniteSets, TLC

(***************************************************************************)
(* Bounds of the model.                                                    *)
(***************************************************************************)
\* generated item codes have at most this many characters
MaxLen == 4

(***************************************************************************)
(* Characters and strings.                                                 *)
(***************************************************************************)
None == <<>>

Some(v) == <<v>>

\* [A-Z]
Upper == {"A","B","C","D","E","F","G","H","I","J","K","L","M",
          "N","O","P","Q","R","S","T","U","V","W","X","Y","Z"}

\* \d (ASCII digits)
Digit == {"0","1","2","3","4","5","6","7","8","9"}

DigitVal == [c \in Digit |-> CASE c = "0" -> 0 [] c = "1" -> 1 [] c = "2" -> 2
                               [] c = "3" -> 3 [] c = "4" -> 4 [] c = "5" -> 5
                               [] c = "6" -> 6 [] c = "7" -> 7 [] c = "8" -> 8
                               [] c = "9" -> 9]

\* int(s) for a non-empty string of digits
RECURSIVE int(_)
int(s) == IF s = <<>> THEN 0
          ELSE int(SubSeq(s, 1, Len(s) - 1)) * 10 + DigitVal[s[Len(s)]]

\* s[i-1:j] of Python, 1-based and inclusive
Slice(s, i, j) == IF i > j THEN <<>> ELSE SubSeq(s, i, j)

\* the length of the longest run of characters of class C that starts at s[i]
RECURSIVE Run(_, _, _)
Run(s, i, C) == IF i > Len(s) \/ s[i] \notin C THEN 0 ELSE 1 + Run(s, i + 1, C)

\* sub occurs in s at position i
OccursAt(s, sub, i) == /\ i + Len(sub) - 1 <= Len(s)
                       /\ SubSeq(s, i, i + Len(sub) - 1) = sub

\* sub in s
Contains(s, sub) == \E i \in 1..(Len(s) + 1) : OccursAt(s, sub, i)

\* s.replace(sub, ''), from position i on: every non-overlapping occurrence,
\* left to right
RECURSIVE RemoveFrom(_, _, _)
RemoveFrom(s, sub, i) ==
    IF i > Len(s) THEN <<>>
    ELSE IF OccursAt(s, sub, i) THEN RemoveFrom(s, sub, i + Len(sub))
    ELSE <<s[i]>> \o RemoveFrom(s, sub, i + 1)

Remove(s, sub) == RemoveFrom(s, sub, 1)

\* s.endswith(c) for a one-character c
EndsWith(s, c) == Len(s) >= 1 /\ s[Len(s)] = c

\* s.startswith(c) for a one-character c
StartsWith(s, c) == Len(s) >= 1 /\ s[1] = c

\* the literal '-L/R'
LRSuffix == <<"-", "L", "/", "R">>

(***************************************************************************)
(* The regular expressions of the scripts.  A match is the tuple of its    *)
(* groups; NoMatch is re's None.  The character classes that follow one    *)
(* another in each expression are disjoint, so the greedy decomposition is *)
(* the only one and backtracking finds no other.                           *)
(***************************************************************************)
NoMatch == <<>>

\* ^([A-Z]+)(\d+)([A-Z]*)$
MatchLettersDigitsSuffix(s) ==
    LET a == Run(s, 1, Upper)
        b == Run(s, a + 1, Digit)
        c == Run(s, a + b + 1, Upper)
    IN  IF a >= 1 /\ b >= 1 /\ a + b + c = Len(s)
        THEN <<Slice(s, 1, a), Slice(s, a + 1, a + b), Slice(s, a + b + 1, Len(s))>>
        ELSE NoMatch

\* ^([A-Z]+)(\d{2})(\d{2})$
MatchLettersFourDigits(s) ==
    LET a == Run(s, 1, Upper)
        b == Run(s, a + 1, Digit)
    IN  IF a >= 1 /\ b = 4 /\ a + b = Len(s)
        THEN <<Slice(s, 1, a), Slice(s, a + 1, a + 2), Slice(s, a + 3, a + 4)>>
        ELSE NoMatch

\* ^(\d+[A-Z]+)(\d+)$
MatchDigitLettersDigits(s) ==
    LET d == Run(s, 1, Digit)
        a == Run(s, d + 1, Upper)
        b == Run(s, d + a + 1, Digit)
    IN  IF d >= 1 /\ a >= 1 /\ b >= 1 /\ d + a + b = Len(s)
        THEN <<Slice(s, 1, d + a), Slice(s, d + a + 1, Len(s))>>
        ELSE NoMatch

\* re.match(pattern, s).groups() for the patterns of parse_item_code
re_match(pattern, s) ==
    CASE pattern = "^([A-Z]+)(\\d+)([A-Z]*)$"   -> MatchLettersDigitsSuffix(s)
      [] pattern = "^([A-Z]+)(\\d{2})(\\d{2})$" -> MatchLettersFourDigits(s)
      [] pattern = "^(\\d+[A-Z]+)(\\d+)$"       -> MatchDigitLettersDigits(s)

\* the first position >= i at which a run of class C starts that is
\* directly followed by a character of class D; 0 if there is none
RECURSIVE FirstRunBefore(_, _, _, _)
FirstRunBefore(s, i, C, D) ==
    IF i > Len(s) THEN 0
    ELSE IF s[i] \in C
         THEN LET n == Run(s, i, C)
              IN  IF i + n <= Len(s) /\ s[i + n] \in D THEN i
                  ELSE FirstRunBefore(s, i + n, C, D)
         ELSE FirstRunBefore(s, i + 1, C, D)

\* re.search(r'(\d+)', s).group(1): the first run of digits; None without one
SearchDigits(s) ==
    LET P == {i \in 1..Len(s) : s[i] \in Digit}
    IN  IF P = {} THEN None
        ELSE LET i == CHOOSE p \in P : \A q \in P : p <= q
             IN  Some(Slice(s, i, i + Run(s, i, Digit) - 1))

\* re.search(r'[A-Z]+(\d+)', s).group(1): the digits after the first run of
\* letters that a digit follows; None without one
SearchLettersDigits(s) ==
    LET i == FirstRunBefore(s, 1, Upper, Digit)
    IN  IF i = 0 THEN None
        ELSE LET j == i + Run(s, i, Upper)
             IN  Some(Slice(s, j, j + Run(s, j, Digit) - 1))

(***************************************************************************)
(* import_cabinet_csv.py: CabinetCSVImporter.parse_item_code and helpers.  *)
(***************************************************************************)
\* the dict literal of normalize_type_code, as <<key, value>> pairs
type_mapping ==
    { <<<<"B","F","D">>, <<"B">>>>,
      <<<<"B","C">>, <<"B","C">>>>,
      <<<<"B","L","S">>, <<"B","L","S">>>>,
      <<<<"W">>, <<"W">>>>,
      <<<<"2","D","B">>, <<"2","D","B">>>>,
      <<<<"3","D","B">>, <<"3","D","B">>>>,
      <<<<"4","D","B">>, <<"4","D","B">>>>,
      <<<<"5","D","B">>, <<"5","D","B">>>>,
      <<<<"P","C">>, <<"P","C">>>>,
      <<<<"V">>, <<"V">>>>,
      <<<<"V","B">>, <<"V","B">>>>,
      <<<<"V","D">>, <<"V","D">>>>,
      <<<<"V","D","B">>, <<"V","D","B">>>>,
      <<<<"V","S","B">>, <<"V","S","B">>>>,
      <<<<"S","B">>, <<"S","B">>>>,
      <<<<"F">>, <<"F">>>>,
      <<<<"P","N","L">>, <<"P","N","L">>>>,
      <<<<"D">>, <<"D">>>>,
      <<<<"M","O","C">>, <<"M","O","C">>>>,
      <<<<"T","K">>, <<"T","K">>>>,
      <<<<"D","W","P">>, <<"D","W","P">>>>,
      <<<<"R","P">>, <<"R","P">>>>,
      <<<<"A","D","A">>, <<"A","D","A">>>>,
      <<<<"C","F">>, <<"C","F">>>> }

\* type_mapping.get(type_code, type_code): an unknown token passed through
normalize_type_code_Passthrough(type_code) ==
    IF \E p \in type_mapping : p[1] = type_code
    THEN (CHOOSE p \in type_mapping : p[1] = type_code)[2]
    ELSE type_code

\* type_mapping.get(type_code, 'B')
normalize_type_code(type_code) ==
    IF \E p \in type_mapping : p[1] = type_code
    THEN (CHOOSE p \in type_mapping : p[1] = type_code)[2]
    ELSE <<"B">>

\* infer_door_drawer_count whose drawer-base branch also gives the one door
\* of a specialty item
infer_door_drawer_count_DrawerBaseDoor(type_code, item_code) ==
    IF type_code \in {<<"2","D","B">>, <<"3","D","B">>, <<"4","D","B">>, <<"5","D","B">>}
    THEN <<1, DigitVal[type_code[1]]>>
    ELSE IF type_code \in {<<"B">>, <<"B","F","D">>}
    THEN LET width_match == SearchDigits(item_code)
         IN  IF width_match # None
             THEN <<IF int(width_match[1]) < 24 THEN 1 ELSE 2, 0>>
             ELSE <<0, 0>>
    ELSE IF type_code = <<"W">>
    THEN <<2, 0>>
    ELSE <<IF type_code \notin {<<"F">>, <<"P","N","L">>, <<"T","K">>, <<"D">>}
           THEN 1 ELSE 0, 0>>

\* infer_door_drawer_count whose wall branch counts doors by width as the
\* base branch does
infer_door_drawer_count_WallByWidth(type_code, item_code) ==
    IF type_code \in {<<"2","D","B">>, <<"3","D","B">>, <<"4","D","B">>, <<"5","D","B">>}
    THEN <<0, DigitVal[type_code[1]]>>
    ELSE IF type_code \in {<<"B">>, <<"B","F","D">>, <<"W">>}
    THEN LET width_match == SearchDigits(item_code)
         IN  IF width_match # None
             THEN <<IF int(width_match[1]) < 24 THEN 1 ELSE 2, 0>>
             ELSE <<0, 0>>
    ELSE <<IF type_code \notin {<<"F">>, <<"P","N","L">>, <<"T","K">>, <<"D">>}
           THEN 1 ELSE 0, 0>>

\* infer_door_drawer_count without its drawer-base branch
infer_door_drawer_count_NoDrawerBase(type_code, item_code) ==
    IF type_code \in {<<"B">>, <<"B","F","D">>}
    THEN LET width_match == SearchDigits(item_code)
         IN  IF width_match # None
             THEN <<IF int(width_match[1]) < 24 THEN 1 ELSE 2, 0>>
             ELSE <<0, 0>>
    ELSE IF type_code = <<"W">>
    THEN <<2, 0>>
    ELSE <<IF type_code \notin {<<"F">>, <<"P","N","L">>, <<"T","K">>, <<"D">>}
           THEN 1 ELSE 0, 0>>

\* (doors, drawers) of a type code and the orientation-stripped item code
infer_door_drawer_count(type_code, item_code) ==
    IF type_code \in {<<"2","D","B">>, <<"3","D","B">>, <<"4","D","B">>, <<"5","D","B">>}
    THEN <<0, DigitVal[type_code[1]]>>
    ELSE IF type_code \in {<<"B">>, <<"B","F","D">>}
    THEN LET width_match == SearchDigits(item_code)
         IN  IF width_match # None
             THEN <<IF int(width_match[1]) < 24 THEN 1 ELSE 2, 0>>
             ELSE <<0, 0>>
    ELSE IF type_code = <<"W">>
    THEN <<2, 0>>
    ELSE <<IF type_code \notin {<<"F">>, <<"P","N","L">>, <<"T","K">>, <<"D">>}
           THEN 1 ELSE 0, 0>>

\* the list of patterns with the four-digit pattern tried first
patterns_FourDigitsFirst ==
    << "^([A-Z]+)(\\d{2})(\\d{2})$",
       "^([A-Z]+)(\\d+)([A-Z]*)$",
       "^(\\d+[A-Z]+)(\\d+)$",
       "^([A-Z]+)(\\d+)([A-Z]*)$" >>

\* the list of patterns of parse_item_code, in its order
patterns ==
    << "^([A-Z]+)(\\d+)([A-Z]*)$",
       "^([A-Z]+)(\\d{2})(\\d{2})$",
       "^(\\d+[A-Z]+)(\\d+)$",
       "^([A-Z]+)(\\d+)([A-Z]*)$" >>

\* the groups of the first pattern of pats that matches s; NoMatch if none does
RECURSIVE FirstMatch(_, _)
FirstMatch(pats, s) ==
    IF pats = <<>> THEN NoMatch
    ELSE IF re_match(Head(pats), s) # NoMatch THEN re_match(Head(pats), s)
    ELSE FirstMatch(Tail(pats), s)

\* the 'L/R variants' step if it set the flag and left the code as it is
StripOrientation_KeepSuffix(item_code) ==
    IF Contains(item_code, LRSuffix)
    THEN <<item_code, TRUE>>
    ELSE IF EndsWith(item_code, "L") \/ EndsWith(item_code, "R")
    THEN <<Slice(item_code, 1, Len(item_code) - 1), TRUE>>
    ELSE <<item_code, FALSE>>

\* the 'L/R variants' step: <<stripped code, is_left_right>>
StripOrientation(item_code) ==
    IF Contains(item_code, LRSuffix)
    THEN <<Remove(item_code, LRSuffix), TRUE>>
    ELSE IF EndsWith(item_code, "L") \/ EndsWith(item_code, "R")
    THEN <<Slice(item_code, 1, Len(item_code) - 1), TRUE>>
    ELSE <<item_code, FALSE>>

\* the body of the pattern loop if four digits were one width
ExtractFromGroups_NoSplit(groups) ==
    [ type_code |-> normalize_type_code(groups[1]),
      width     |-> IF Len(groups[2]) >= 2 THEN Some(int(groups[2])) ELSE None,
      height    |-> None ]

\* the body of the pattern loop for the groups of the first match
ExtractFromGroups(groups) ==
    [ type_code |-> normalize_type_code(groups[1]),
      width     |-> IF Len(groups[2]) = 4 THEN Some(int(Slice(groups[2], 1, 2)))
                    ELSE IF Len(groups[2]) >= 2 THEN Some(int(groups[2]))
                    ELSE None,
      height    |-> IF Len(groups[2]) = 4 THEN Some(int(Slice(groups[2], 3, 4)))
                    ELSE None ]

parse_item_code(item_code) ==
    LET so      == StripOrientation(item_code)
        code    == so[1]
        groups  == FirstMatch(patterns, code)
        ex      == IF groups # NoMatch THEN ExtractFromGroups(groups)
                   ELSE [type_code |-> None, width |-> None, height |-> None]
        counts  == infer_door_drawer_count(ex.type_code, code)
    IN  [ width         |-> ex.width,
          height        |-> ex.height,
          depth         |-> None,
          type_code     |-> ex.type_code,
          is_left_right |-> so[2],
          door_count    |-> counts[1],
          drawer_count  |-> counts[2] ]

(***************************************************************************)
(* import_csv_data.py: CabinetDataImporter.parse_dimensions.               *)
(***************************************************************************)
\* re.search(r'(\d+)H', s).group(1): the first run of digits that an H follows
SearchDigitsH(s) ==
    LET i == FirstRunBefore(s, 1, Digit, {"H"})
    IN  IF i = 0 THEN None ELSE Some(Slice(s, i, i + Run(s, i, Digit) - 1))

\* the first position >= i at which a run of digits starts that D, or a
\* double quote and D, follows; 0 if there is none
RECURSIVE FirstDepthRun(_, _)
FirstDepthRun(s, i) ==
    IF i > Len(s) THEN 0
    ELSE IF s[i] \in Digit
         THEN LET e == i + Run(s, i, Digit)
              IN  IF \/ (e <= Len(s) /\ s[e] = "D")
                     \/ (e + 1 <= Len(s) /\ s[e] = "\"" /\ s[e + 1] = "D")
                  THEN i
                  ELSE FirstDepthRun(s, e)
         ELSE FirstDepthRun(s, i + 1)

\* re.search(r'(\d+)"?D', s).group(1)
SearchDigitsD(s) ==
    LET i == FirstDepthRun(s, 1)
    IN  IF i = 0 THEN None ELSE Some(Slice(s, i, i + Run(s, i, Digit) - 1))

\* Decimal(m.group(1)) of a match, None without a match
DecimalOf(m) == IF m = None THEN None ELSE Some(int(m[1]))

\* parse_dimensions with the default depth of the prefix set first and kept
parse_dimensions_DefaultFirst(item_code, description) ==
    LET depth == DecimalOf(SearchDigitsD(description))
    IN  [ width  |-> DecimalOf(SearchLettersDigits(item_code)),
          height |-> DecimalOf(SearchDigitsH(description)),
          depth  |-> IF StartsWith(item_code, "B") THEN Some(24)
                     ELSE IF StartsWith(item_code, "W") THEN Some(12)
                     ELSE IF StartsWith(item_code, "V") THEN Some(21)
                     ELSE depth ]

parse_dimensions(item_code, description) ==
    LET depth == DecimalOf(SearchDigitsD(description))
    IN  [ width  |-> DecimalOf(SearchLettersDigits(item_code)),
          height |-> DecimalOf(SearchDigitsH(description)),
          depth  |-> IF depth # None THEN depth
                     ELSE IF StartsWith(item_code, "B") THEN Some(24)
                     ELSE IF StartsWith(item_code, "W") THEN Some(12)
                     ELSE IF StartsWith(item_code, "V") THEN Some(21)
                     ELSE None ]

(***************************************************************************)
(* simple_import.py: the width extraction of main.                         *)
(***************************************************************************)
\* 'width = 24  # Default width'
DefaultWidth == 24

\* the sanity bounds of the width, in inches
MinWidth == 6

MaxWidth == 96

\* re.match(r'^[A-Z]+\d{2}[A-Z]*', s)
MatchesLettersTwoDigits(s) ==
    LET a == Run(s, 1, Upper) IN a >= 1 /\ Run(s, a + 1, Digit) >= 2

\* re.match(r'^W\d{4}', s)
MatchesWFourDigits(s) == StartsWith(s, "W") /\ Run(s, 2, Digit) >= 4

\* re.match(r'^\d+[A-Z]+\d+', s)
MatchesDigitsLettersDigits(s) ==
    LET d == Run(s, 1, Digit)
        a == Run(s, d + 1, Upper)
    IN  d >= 1 /\ a >= 1 /\ Run(s, d + a + 1, Digit) >= 1

\* the width before the range check.  Each re.search finds its leftmost match,
\* which starts at the first character because the re.match before it
\* succeeded there.
simple_import_extract(item_code) ==
    IF MatchesLettersTwoDigits(item_code)
    THEN LET a == Run(item_code, 1, Upper)
         IN  int(Slice(item_code, a + 1, a + 2))
    ELSE IF MatchesWFourDigits(item_code)
    THEN int(Slice(item_code, 2, 3))
    ELSE IF MatchesDigitsLettersDigits(item_code)
    THEN LET d == Run(item_code, 1, Digit)
             a == Run(item_code, d + 1, Upper)
         IN  int(Slice(item_code, d + a + 1, d + a + Run(item_code, d + a + 1, Digit)))
    ELSE DefaultWidth

simple_import_width(item_code) ==
    LET w == simple_import_extract(item_code)
    IN  IF w < MinWidth \/ w > MaxWidth THEN DefaultWidth ELSE w

(***************************************************************************)
(* import_csv_data.py: the description-based helpers of CabinetDataImporter *)
(***************************************************************************)
\* str.lower() on one character: the ASCII letters; other characters are kept
LowerChar(c) ==
    CASE c = "A" -> "a" [] c = "B" -> "b" [] c = "C" -> "c" [] c = "D" -> "d"
      [] c = "E" -> "e" [] c = "F" -> "f" [] c = "G" -> "g" [] c = "H" -> "h"
      [] c = "I" -> "i" [] c = "J" -> "j" [] c = "K" -> "k" [] c = "L" -> "l"
      [] c = "M" -> "m" [] c = "N" -> "n" [] c = "O" -> "o" [] c = "P" -> "p"
      [] c = "Q" -> "q" [] c = "R" -> "r" [] c = "S" -> "s" [] c = "T" -> "t"
      [] c = "U" -> "u" [] c = "V" -> "v" [] c = "W" -> "w" [] c = "X" -> "x"
      [] c = "Y" -> "y" [] c = "Z" -> "z" [] OTHER -> c

\* s.lower()
lower(s) == [i \in 1..Len(s) |-> LowerChar(s[i])]

\* the cabinet type code of a description; None if no phrase is found
get_cabinet_type_id(description) ==
    LET d == lower(description)
    IN  IF Contains(d, <<"b", "a", "s", "e", " ", "c", "a", "b", "i", "n", "e", "t", " ", "f", "u", "l", "l", " ", "d", "o", "o", "r">>)
        THEN Some("BASE_FULL_DOOR")
        ELSE IF (Contains(d, <<"b", "a", "s", "e", " ", "c", "a", "b", "i", "n", "e", "t">>) /\ (Contains(d, <<"d", "o", "o", "r">>) /\ Contains(d, <<"d", "r", "a", "w", "e", "r">>)))
        THEN Some("BASE_STANDARD")
        ELSE IF Contains(d, <<"b", "l", "i", "n", "d", " ", "c", "o", "r", "n", "e", "r", " ", "b", "a", "s", "e">>)
        THEN Some("BASE_BLIND_CORNER")
        ELSE IF (Contains(d, <<"l", "a", "z", "y", " ", "s", "u", "z", "a", "n", " ", "b", "a", "s", "e">>) \/ Contains(d, <<"l", "a", "z", "y", " ", "s", "u", "s", "a", "n", " ", "b", "a", "s", "e">>))
        THEN Some("BASE_LAZY_SUSAN")
        ELSE IF Contains(d, <<"d", "r", "a", "w", "e", "r", " ", "b", "a", "s", "e", " ", "c", "a", "b", "i", "n", "e", "t">>)
        THEN Some("BASE_DRAWER")
        ELSE IF (Contains(d, <<"1", "2", "\"", "d", " ", "b", "a", "s", "e">>) \/ Contains(d, <<"1", "2", "\"", " ", "d", " ", "b", "a", "s", "e">>))
        THEN Some("BASE_12D")
        ELSE IF Contains(d, <<"a", "d", "a", " ", "s", "i", "n", "k", " ", "b", "a", "s", "e">>)
        THEN Some("ADA_SINK_BASE")
        ELSE IF (Contains(d, <<"s", "i", "n", "k", " ", "b", "a", "s", "e">>) /\ ~Contains(d, <<"v", "a", "n", "i", "t", "y">>))
        THEN Some("SINK_BASE")
        ELSE IF (Contains(d, <<"w", "a", "l", "l", " ", "c", "a", "b", "i", "n", "e", "t">>) /\ Contains(d, <<"f", "l", "i", "p", " ", "u", "p">>))
        THEN Some("WALL_FLIP_UP")
        ELSE IF (Contains(d, <<"w", "a", "l", "l", " ", "c", "a", "b", "i", "n", "e", "t">>) /\ (Contains(d, <<"h">>) \/ Contains(d, <<"h", "e", "i", "g", "h", "t">>)))
        THEN Some("WALL_STANDARD")
        ELSE IF Contains(d, <<"w", "a", "l", "l", " ", "f", "r", "i", "d", "g", "e", " ", "u", "n", "i", "t">>)
        THEN Some("WALL_FRIDGE")
        ELSE IF Contains(d, <<"v", "a", "n", "i", "t", "y", " ", "h", "e", "a", "d", " ", "k", "n", "o", "c", "k", "e", "r">>)
        THEN Some("VANITY_HEAD_KNOCKER")
        ELSE IF Contains(d, <<"v", "a", "n", "i", "t", "y", " ", "s", "i", "n", "k", " ", "b", "a", "s", "e">>)
        THEN Some("VANITY_SINK_BASE")
        ELSE IF (Contains(d, <<"v", "a", "n", "i", "t", "y">>) /\ Contains(d, <<"d", "r", "a", "w", "e", "r", " ", "b", "a", "s", "e">>))
        THEN Some("VANITY_DRAWER_BASE")
        ELSE IF Contains(d, <<"v", "a", "n", "i", "t", "y", " ", "b", "a", "s", "e">>)
        THEN Some("VANITY_BASE")
        ELSE IF (Contains(d, <<"v", "a", "n", "i", "t", "y">>) /\ Contains(d, <<"f", "l", "o", "a", "t", "i", "n", "g">>))
        THEN Some("VANITY_FLOATING")
        ELSE IF Contains(d, <<"p", "a", "n", "t", "r", "y">>)
        THEN Some("PANTRY")
        ELSE IF Contains(d, <<"o", "v", "e", "n", " ", "c", "a", "b", "i", "n", "e", "t">>)
        THEN Some("OVEN_CABINET")
        ELSE None


\* the doors and drawers a description names
count_doors_drawers(description) ==
    LET d == lower(description)
    IN  [ doors   |-> IF (Contains(d, <<"2", " ", "d", "o", "o", "r">>) \/ Contains(d, <<"2", "d", "o", "o", "r">>) \/ Contains(d, <<"d", "o", "u", "b", "l", "e", " ", "d", "o", "o", "r">>)) THEN 2
                      ELSE IF (Contains(d, <<"1", " ", "d", "o", "o", "r">>) \/ Contains(d, <<"1", "d", "o", "o", "r">>) \/ Contains(d, <<"s", "i", "n", "g", "l", "e", " ", "d", "o", "o", "r">>)) THEN 1
                      ELSE 0,
          drawers |-> IF (Contains(d, <<"3", " ", "d", "r", "a", "w", "e", "r">>) \/ Contains(d, <<"3", "d", "r", "a", "w", "e", "r">>)) THEN 3
                      ELSE IF (Contains(d, <<"2", " ", "d", "r", "a", "w", "e", "r">>) \/ Contains(d, <<"2", "d", "r", "a", "w", "e", "r">>)) THEN 2
                      ELSE IF (Contains(d, <<"1", " ", "d", "r", "a", "w", "e", "r">>) \/ Contains(d, <<"1", "d", "r", "a", "w", "e", "r">>) \/ Contains(d, <<"s", "i", "n", "g", "l", "e", " ", "d", "r", "a", "w", "e", "r">>)) THEN 1
                      ELSE 0 ]

(***************************************************************************)
(* The inputs: item codes and descriptions.                                *)
(***************************************************************************)
\* the characters of the generated item codes: a letter that is no key of
\* type_mapping, one that is, an orientation letter, two digits, a separator
Alphabet == {"B", "W", "R", "1", "9", "-"}

\* all strings over Alphabet of length at most n
RECURSIVE StringsUpTo(_)
StringsUpTo(n) ==
    IF n = 0 THEN {<<>>}
    ELSE LET S == StringsUpTo(n - 1)
         IN  S \cup {Append(s, c) : s \in {t \in S : Len(t) = n - 1}, c \in Alphabet}

\* item codes of the scripts' docstrings, comments and tests, and of the
\* catalog's shapes
CatalogCodes ==
    { <<"W", "3", "6", "3", "0">>,
      <<"2", "D", "B", "2", "4">>,
      <<"B", "1", "8", "-", "L", "/", "R">>,
      <<"B", "1", "8">>,
      <<"B", "3">>,
      <<"Z", "Q", "9", "9">>,
      <<"B", "9", "9">>,
      <<"B", "2", "4", "F", "D", "-", "L", "/", "R">>,
      <<"B", "2", "4", "F", "D">>,
      <<"B", "3", "0", "F", "D">>,
      <<"B", "3", "6">>,
      <<"B", "2", "4">>,
      <<"B", "C", "3", "9", "R">>,
      <<"W", "3", "0", "1", "8">>,
      <<"S", "B", "3", "0">>,
      <<"V", "S", "B", "3", "0", "2", "1">>,
      <<"P", "C", "1", "8", "8", "4">>,
      <<"A", "D", "A", "-", "V", "S", "B", "2", "4", "2", "1">>,
      <<"F", "3">>,
      <<"T", "K", "9", "6">>,
      <<"B", "1", "0", "0">>,
      <<"2", "D", "B", "2", "4", "L">>,
      <<"3", "D", "B", "1", "5">>,
      <<"B", "L", "S", "3", "6">>,
      <<"B", "0", "5">>,
      <<"W", "1", "2", "1", "8", "-", "L", "/", "R">>,
      <<"P", "C", "1", "2", "-", "L", "/", "R">>,
      <<"B", "1", "2", "3", "4", "5">>,
      <<"6", "D", "B", "2", "4">>,
      <<"4", "D", "B", "3", "6">> }

BaseCodes == StringsUpTo(MaxLen) \cup CatalogCodes

\* every base code, alone and with the '-L/R' suffix
ItemCodes == BaseCodes \cup {c \o LRSuffix : c \in BaseCodes}

Descriptions ==
    { <<>>,
      <<"B", "a", "s", "e", " ", "C", "a", "b", "i", "n", "e", "t", " ", "F", "u", "l", "l", " ", "D", "o", "o", "r">>,
      <<"W", "a", "l", "l", " ", "C", "a", "b", "i", "n", "e", "t", " ", "3", "0", "H", " ", "1", "2", "\"", "D">>,
      <<"V", "a", "n", "i", "t", "y", " ", "2", "1", "D">> }

(***************************************************************************)
(* The database and the importers.  db is what the open connection sees    *)
(* (committed and pending rows), committed what a new connection would     *)
(* see.  A statement that fails inside a transaction aborts it: every      *)
(* later statement of the transaction fails too, until a rollback; a       *)
(* commit of an aborted transaction is a rollback.  Identifiers that the   *)
(* database generates are fresh numbers.  A price cell is None (empty or   *)
(* unparsable) or Some(amount), the result of clean_price.                 *)
(***************************************************************************)
EmptyDb == [products |-> {}, variants |-> {}, pricing |-> {}, inventory |-> {}]

\* a fresh identifier for a table whose rows have the identifiers ids
NewId(ids) == CHOOSE n \in 1..(Cardinality(ids) + 1) : n \notin ids

\* the statement stmt raises: it is the one the fault names, or the
\* transaction is already aborted
Raises(c, fault, stmt) == c.tx_failed \/ fault = stmt

\* the price columns of the CSV, in the order both importers visit them
price_columns ==
    << "Price with ParticleBoard Box", "Price with Plywood Box",
       "UV Birch Plywood", "White Plywood" >>

(***************************************************************************)
(* import_cabinet_csv.py: CabinetCSVImporter.                              *)
(***************************************************************************)
\* load_reference_data: the active colors, materials and cabinet types; an
\* identifier of reference data is identified with its name or code
color_options_cache == {"WHITE"}

box_materials_cache == {"particleboard", "plywood", "uv_birch", "white_plywood"}

cabinet_types_cache == {p[2] : p \in type_mapping} \cup {<<"B">>}

\* the material_mapping of create_pricing_records
material_mapping(csv_col) ==
    CASE csv_col = "Price with ParticleBoard Box" -> "particleboard"
      [] csv_col = "Price with Plywood Box"       -> "plywood"
      [] csv_col = "UV Birch Plywood"             -> "uv_birch"
      [] csv_col = "White Plywood"                -> "white_plywood"

\* the dummy identifiers of a dry run
DryRunProductId == 999999

DryRunVariantId == "00000000-0000-0000-0000-000000000000"

\* self.stats of a new CabinetCSVImporter
CabinetCSVImporterStats ==
    [ total_rows |-> 0, products_created |-> 0, variants_created |-> 0,
      pricing_records_created |-> 0, errors |-> 0, duplicates_skipped |-> 0 ]

\* the columns of the product that get_or_create_product inserts
ProductOfParsed(id, code, type_id, parsed) ==
    [ id |-> id, item_code |-> code, cabinet_type_id |-> type_id,
      width |-> parsed.width, height |-> parsed.height, depth |-> parsed.depth,
      door_count |-> parsed.door_count, drawer_count |-> parsed.drawer_count,
      is_left_right |-> parsed.is_left_right ]

\* get_or_create_product if it inserted without looking the item code up
get_or_create_product_NoLookup(c, dry, code, parsed, fault) ==
    LET type_id  == IF parsed.type_code \in cabinet_types_cache THEN Some(parsed.type_code)
                    ELSE IF <<"B">> \in cabinet_types_cache THEN Some(<<"B">>)
                    ELSE None
    IN  IF Raises(c, fault, "select_product")
        THEN [ctx |-> c, id |-> None, raised |-> TRUE]
        ELSE IF dry
        THEN [ctx |-> c, id |-> Some(DryRunProductId), raised |-> FALSE]
        ELSE IF Raises(c, fault, "insert_product")
        THEN [ctx |-> [c EXCEPT !.stats.errors = @ + 1, !.tx_failed = TRUE],
              id |-> None, raised |-> FALSE]
        ELSE LET id == NewId({p.id : p \in c.db.products})
             IN  [ctx |-> [c EXCEPT !.db.products = @ \cup {ProductOfParsed(id, code, type_id, parsed)},
                                    !.stats.products_created = @ + 1],
                  id |-> Some(id), raised |-> FALSE]

\* get_or_create_product that counts the product it finds as a duplicate
get_or_create_product_CountsDuplicate(c, dry, code, parsed, fault) ==
    LET existing == {p \in c.db.products : p.item_code = code}
        type_id  == IF parsed.type_code \in cabinet_types_cache THEN Some(parsed.type_code)
                    ELSE IF <<"B">> \in cabinet_types_cache THEN Some(<<"B">>)
                    ELSE None
    IN  IF Raises(c, fault, "select_product")
        THEN [ctx |-> c, id |-> None, raised |-> TRUE]
        ELSE IF existing # {}
        THEN [ctx |-> [c EXCEPT !.stats.duplicates_skipped = @ + 1],
              id |-> Some((CHOOSE p \in existing : TRUE).id), raised |-> FALSE]
        ELSE IF dry
        THEN [ctx |-> c, id |-> Some(DryRunProductId), raised |-> FALSE]
        ELSE IF Raises(c, fault, "insert_product")
        THEN [ctx |-> [c EXCEPT !.stats.errors = @ + 1, !.tx_failed = TRUE],
              id |-> None, raised |-> FALSE]
        ELSE LET id == NewId({p.id : p \in c.db.products})
             IN  [ctx |-> [c EXCEPT !.db.products = @ \cup {ProductOfParsed(id, code, type_id, parsed)},
                                    !.stats.products_created = @ + 1],
                  id |-> Some(id), raised |-> FALSE]

\* c is <<db, stats, tx_failed>> before the call; the result is c after it,
\* the identifier returned (None for Python's None) and whether the call
\* raised
get_or_create_product(c, dry, code, parsed, fault) ==
    LET existing == {p \in c.db.products : p.item_code = code}
        type_id  == IF parsed.type_code \in cabinet_types_cache THEN Some(parsed.type_code)
                    ELSE IF <<"B">> \in cabinet_types_cache THEN Some(<<"B">>)
                    ELSE None
    IN  IF Raises(c, fault, "select_product")
        THEN [ctx |-> c, id |-> None, raised |-> TRUE]
        ELSE IF existing # {}
        THEN [ctx |-> c, id |-> Some((CHOOSE p \in existing : TRUE).id), raised |-> FALSE]
        ELSE IF dry
        THEN [ctx |-> c, id |-> Some(DryRunProductId), raised |-> FALSE]
        ELSE IF Raises(c, fault, "insert_product")
        THEN [ctx |-> [c EXCEPT !.stats.errors = @ + 1, !.tx_failed = TRUE],
              id |-> None, raised |-> FALSE]
        ELSE LET id == NewId({p.id : p \in c.db.products})
             IN  [ctx |-> [c EXCEPT !.db.products = @ \cup {ProductOfParsed(id, code, type_id, parsed)},
                                    !.stats.products_created = @ + 1],
                  id |-> Some(id), raised |-> FALSE]

\* get_or_create_variant if it did not look at dry_run
get_or_create_variant_IgnoreDryRun(c, dry, product_id, color_option_id, fault) ==
    LET existing == {v \in c.db.variants :
                        v.product_id = product_id /\ v.color_option_id = color_option_id}
    IN  IF Raises(c, fault, "select_variant")
        THEN [ctx |-> c, id |-> None, raised |-> TRUE]
        ELSE IF existing # {}
        THEN [ctx |-> c, id |-> Some((CHOOSE v \in existing : TRUE).id), raised |-> FALSE]
        ELSE IF Raises(c, fault, "insert_variant")
        THEN [ctx |-> [c EXCEPT !.stats.errors = @ + 1, !.tx_failed = TRUE],
              id |-> None, raised |-> FALSE]
        ELSE LET id == NewId({v.id : v \in c.db.variants})
             IN  [ctx |-> [c EXCEPT !.db.variants = @ \cup
                                       {[id |-> id, product_id |-> product_id,
                                         color_option_id |-> color_option_id]},
                                    !.stats.variants_created = @ + 1],
                  id |-> Some(id), raised |-> FALSE]

get_or_create_variant(c, dry, product_id, color_option_id, fault) ==
    LET existing == {v \in c.db.variants :
                        v.product_id = product_id /\ v.color_option_id = color_option_id}
    IN  IF Raises(c, fault, "select_variant")
        THEN [ctx |-> c, id |-> None, raised |-> TRUE]
        ELSE IF existing # {}
        THEN [ctx |-> c, id |-> Some((CHOOSE v \in existing : TRUE).id), raised |-> FALSE]
        ELSE IF dry
        THEN [ctx |-> c, id |-> Some(DryRunVariantId), raised |-> FALSE]
        ELSE IF Raises(c, fault, "insert_variant")
        THEN [ctx |-> [c EXCEPT !.stats.errors = @ + 1, !.tx_failed = TRUE],
              id |-> None, raised |-> FALSE]
        ELSE LET id == NewId({v.id : v \in c.db.variants})
             IN  [ctx |-> [c EXCEPT !.db.variants = @ \cup
                                       {[id |-> id, product_id |-> product_id,
                                         color_option_id |-> color_option_id]},
                                    !.stats.variants_created = @ + 1],
                  id |-> Some(id), raised |-> FALSE]

\* the loop of create_pricing_records over the columns cols; prices maps the
\* columns that process_row kept to their amounts
RECURSIVE create_pricing_records(_, _, _, _, _, _)
create_pricing_records(c, dry, variant_id, prices, cols, fault) ==
    IF cols = <<>> THEN c
    ELSE LET csv_col == Head(cols)
             db_code == material_mapping(csv_col)
             next    ==
                 IF csv_col \notin DOMAIN prices THEN c
                 ELSE IF db_code \notin box_materials_cache THEN c
                 ELSE IF dry THEN c
                 ELSE IF Raises(c, fault, "insert_pricing")
                 THEN [c EXCEPT !.stats.errors = @ + 1, !.tx_failed = TRUE]
                 ELSE [c EXCEPT !.db.pricing = @ \cup
                                   {[product_variant_id |-> variant_id,
                                     box_material_id |-> db_code]},
                                !.stats.pricing_records_created = @ + 1]
         IN  create_pricing_records(next, dry, variant_id, prices, Tail(cols), fault)

\* the prices dict of process_row: the columns whose cleaned price is truthy
TruthyPrices(row) ==
    LET cols == {i \in 1..Len(price_columns) :
                    /\ row.prices[price_columns[i]] # None
                    /\ row.prices[price_columns[i]][1] # 0}
    IN  [col \in {price_columns[i] : i \in cols} |-> row.prices[col][1]]

\* process_row from 'if prices:' on
process_row_prices(c, dry, variant_id, prices, fault) ==
    IF DOMAIN prices = {}
    THEN [ctx |-> c, raised |-> FALSE]
    ELSE [ctx |-> create_pricing_records(c, dry, variant_id, prices, price_columns, fault),
          raised |-> FALSE]

\* process_row from 'if not variant_id:' on; variant is what
\* get_or_create_variant returned
process_row_variant(variant, dry, row, fault) ==
    IF variant.raised \/ variant.id = None
    THEN [ctx |-> variant.ctx, raised |-> variant.raised]
    ELSE process_row_prices(variant.ctx, dry, variant.id[1], TruthyPrices(row), fault)

\* process_row from 'if not product_id:' on; product is what
\* get_or_create_product returned
process_row_product(product, dry, row, fault) ==
    IF product.raised \/ product.id = None
    THEN [ctx |-> product.ctx, raised |-> product.raised]
    ELSE process_row_variant(
             get_or_create_variant(product.ctx, dry, product.id[1], row.color_option, fault),
             dry, row, fault)

\* process_row without the check of the color option against the cache
process_row_AnyColor(c, dry, row, fault) ==
    IF row.item_code = <<>> \/ row.color_option = ""
    THEN [ctx |-> c, raised |-> FALSE]
    ELSE process_row_product(
             get_or_create_product(c, dry, row.item_code, parse_item_code(row.item_code), fault),
             dry, row, fault)

\* process_row: c after the row, and whether an exception left it
process_row(c, dry, row, fault) ==
    IF row.item_code = <<>> \/ row.color_option = ""
    THEN [ctx |-> c, raised |-> FALSE]
    ELSE IF row.color_option \notin color_options_cache
    THEN [ctx |-> c, raised |-> FALSE]
    ELSE process_row_product(
             get_or_create_product(c, dry, row.item_code, parse_item_code(row.item_code), fault),
             dry, row, fault)

\* 'Commit every 100 rows'
CommitEvery == 100

\* the loop of import_csv_file after process_row returned or raised r, for
\* row number n: <<db, stats, tx_failed>> and what is committed
import_csv_file_after_row(r, com, dry, n) ==
    IF ~r.raised
    THEN IF ~dry /\ n % CommitEvery = 0
         THEN IF r.ctx.tx_failed
              THEN [ctx |-> [r.ctx EXCEPT !.db = com, !.tx_failed = FALSE], committed |-> com]
              ELSE [ctx |-> r.ctx, committed |-> r.ctx.db]
         ELSE [ctx |-> r.ctx, committed |-> com]
    ELSE IF ~dry
         THEN [ctx |-> [r.ctx EXCEPT !.stats.errors = @ + 1, !.db = com, !.tx_failed = FALSE],
               committed |-> com]
         ELSE [ctx |-> [r.ctx EXCEPT !.stats.errors = @ + 1], committed |-> com]

\* one turn of the loop of import_csv_file for row number n
import_csv_file_row(c, com, dry, n, row, fault) ==
    import_csv_file_after_row(
        process_row([c EXCEPT !.stats.total_rows = @ + 1], dry, row, fault), com, dry, n)

(***************************************************************************)
(* import_csv_data.py: CabinetDataImporter.                                *)
(***************************************************************************)
\* self.stats of a new CabinetDataImporter
CabinetDataImporterStats ==
    [ csv_rows |-> 0, products_inserted |-> 0, variants_inserted |-> 0,
      prices_inserted |-> 0, errors |-> 0 ]

\* the material code of a price column
price_material(price_col) ==
    CASE price_col = "Price with ParticleBoard Box" -> "PARTICLEBOARD"
      [] price_col = "Price with Plywood Box"       -> "PLYWOOD"
      [] price_col = "UV Birch Plywood"             -> "UV_BIRCH"
      [] price_col = "White Plywood"                -> "WHITE_PLYWOOD"

\* item_code.endswith('-L/R')
EndsWithLR(code) == Len(code) >= 4 /\ OccursAt(code, LRSuffix, Len(code) - 3)

\* the columns of the product that import_csv_data inserts; cabinet_type_map
\* holds every code that get_cabinet_type_id returns
ProductOfDescription(id, code, desc) ==
    LET dimensions_ == parse_dimensions(code, desc)
        counts      == count_doors_drawers(desc)
    IN  [ id |-> id, item_code |-> code, cabinet_type_id |-> get_cabinet_type_id(desc),
          width |-> dimensions_.width, height |-> dimensions_.height,
          depth |-> dimensions_.depth,
          door_count |-> counts.doors, drawer_count |-> counts.drawers,
          is_left_right |-> EndsWithLR(code) ]

\* the price inserts of one row, over the columns cols; the result is c, or
\* None if an insert raised
RECURSIVE insert_prices(_, _, _, _, _)
insert_prices(c, variant_id, row, cols, fault) ==
    IF cols = <<>> THEN Some(c)
    ELSE IF row.prices[Head(cols)] = None
    THEN insert_prices(c, variant_id, row, Tail(cols), fault)
    ELSE IF Raises(c, fault, "insert_pricing") THEN None
    ELSE insert_prices(
             [c EXCEPT !.db.pricing = @ \cup {[product_variant_id |-> variant_id,
                                               box_material_id |-> price_material(Head(cols))]},
                       !.stats.prices_inserted = @ + 1],
             variant_id, row, Tail(cols), fault)

\* the 'except Exception' of the row loop; the failed statement has aborted
\* the transaction
RowFailed(c) ==
    [c EXCEPT !.errors = @ + 1, !.stats.errors = @ + 1, !.tx_failed = TRUE]

\* the row loop from the price inserts on; c3 is what insert_prices returned
import_csv_data_prices(c2, c3) == IF c3 = None THEN RowFailed(c2) ELSE c3[1]

\* the row loop from the variant insert on, for the product found
import_csv_data_variant(c1, product_id, existing, variant_id, row, fault) ==
    IF Raises(c1, fault, "insert_variant") THEN RowFailed(c1)
    ELSE IF existing # {}
    THEN import_csv_data_prices(c1, insert_prices(c1, (CHOOSE v \in existing : TRUE).id,
                                                  row, price_columns, fault))
    ELSE import_csv_data_prices(
             [c1 EXCEPT !.db.variants = @ \cup
                            {[id |-> variant_id, product_id |-> product_id,
                              color_option_id |-> row.color_option]},
                        !.stats.variants_inserted = @ + 1],
             insert_prices(
                 [c1 EXCEPT !.db.variants = @ \cup
                                {[id |-> variant_id, product_id |-> product_id,
                                  color_option_id |-> row.color_option]},
                            !.stats.variants_inserted = @ + 1],
                 variant_id, row, price_columns, fault))

\* the row loop from 'Get product ID' on; found are the products of the
\* row's item code
import_csv_data_select(c1, found, row, fault) ==
    IF Raises(c1, fault, "select_product") THEN RowFailed(c1)
    ELSE IF found = {} THEN [c1 EXCEPT !.errors = @ + 1]
    ELSE import_csv_data_variant(
             c1, (CHOOSE p \in found : TRUE).id,
             {v \in c1.db.variants : /\ v.product_id = (CHOOSE p \in found : TRUE).id
                                     /\ v.color_option_id = row.color_option},
             NewId({v.id : v \in c1.db.variants}), row, fault)

\* 'Insert product if not already inserted': INSERT ... ON CONFLICT
\* (item_code) DO NOTHING, then the bookkeeping
import_csv_data_insert(c, product) ==
    [c EXCEPT !.db.products = IF \E p \in @ : p.item_code = product.item_code THEN @
                              ELSE @ \cup {product},
              !.products_inserted = @ \cup {product.item_code},
              !.stats.products_inserted = @ + 1]

\* the rest of the row loop once c1 is c after the product insert
import_csv_data_found(c1, row, fault) ==
    import_csv_data_select(c1, {p \in c1.db.products : p.item_code = row.item_code}, row, fault)

\* one turn of the row loop of import_csv_data; c is <<db, stats, tx_failed,
\* errors, products_inserted>>.  The color of every row is in color_map,
\* because import_csv_data inserted the colors of the whole CSV before the
\* loop.
import_csv_data_row(c, row, fault) ==
    IF row.item_code = <<>> \/ row.color_option = "" \/ row.description = <<>>
    THEN [c EXCEPT !.errors = @ + 1]
    ELSE IF row.item_code \in c.products_inserted
    THEN import_csv_data_found(c, row, fault)
    ELSE IF Raises(c, fault, "insert_product") THEN RowFailed(c)
    ELSE import_csv_data_found(
             import_csv_data_insert(
                 c, ProductOfDescription(NewId({p.id : p \in c.db.products}),
                                         row.item_code, row.description)),
             row, fault)

(***************************************************************************)
(* State.  item_code and description are the inputs of the decoders;       *)
(* parsed_info, dimensions and width are what parse_item_code,             *)
(* parse_dimensions and the width extraction of simple_import returned for *)
(* them (None before the call).  The other variables are the database and  *)
(* the importer that is running: script names it ("idle" if none is),      *)
(* csv_len is the number of rows of its CSV file, row_num the number of    *)
(* rows it has read, errors the length of CabinetDataImporter.errors,      *)
(* runs the number of imports started, outcome how the last import ended.  *)
(* harness is the position of validate_specific_patterns, case_num the     *)
(* number of golden cases it has run, passed and failed its counters,      *)
(* last_result what the database returned for the last case.               *)
(* type_token is the argument of normalize_type_code and normalized what   *)
(* it returned for it.                                                     *)
(* migration is the position of run_consolidation_migration.py, conn the   *)
(* state of the connection it holds, log what it has done to the database  *)
(* and what it was answered, exit_status the status it exited with.        *)
(* tester is the position of test_database.py, test_num the number of      *)
(* run_test calls made, test_results the dict of that name, tester_exit    *)
(* the status the script exited with.                                      *)
(***************************************************************************)
VARIABLES item_code, description, parsed_info, dimensions, width,
          script, dry_run, csv_len, row_num, stats, errors, products_inserted,
          db, committed, tx_failed, runs, outcome,
          harness, case_num, passed, failed, last_result,
          type_token, normalized,
          migration, conn, log, exit_status,
          tester, test_num, test_results, tester_exit

decodeVars == <<item_code, description, parsed_info, dimensions, width>>

importVars == <<script, dry_run, csv_len, row_num, stats, errors, products_inserted,
                db, committed, tx_failed, runs, outcome>>

harnessVars == <<harness, case_num, passed, failed, last_result>>

normalizeVars == <<type_token, normalized>>

migrationVars == <<migration, conn, log, exit_status>>

testerVars == <<tester, test_num, test_results, tester_exit>>

vars == <<decodeVars, importVars, harnessVars, normalizeVars, migrationVars, testerVars>>

\* no importer has been constructed, the database holds no product
NoImport ==
    /\ script = "idle"
    /\ dry_run = FALSE
    /\ csv_len = 0
    /\ row_num = 0
    /\ stats = <<>>
    /\ errors = 0
    /\ products_inserted = {}
    /\ db = EmptyDb
    /\ committed = EmptyDb
    /\ tx_failed = FALSE
    /\ runs = 0
    /\ outcome = "none"

\* validate_specific_patterns has not been called
NoHarness ==
    /\ harness = "idle"
    /\ case_num = 0
    /\ passed = 0
    /\ failed = 0
    /\ last_result = None

\* normalize_type_code has not been called
NoNormalize ==
    /\ type_token = None
    /\ normalized = None

\* run_consolidation_migration.py has not been started
NoMigration ==
    /\ migration = "idle"
    /\ conn = "none"
    /\ log = <<>>
    /\ exit_status = None

\* test_database.py has not been started
NoTester ==
    /\ tester = "idle"
    /\ test_num = 0
    /\ test_results = <<>>
    /\ tester_exit = None

(***************************************************************************)
(* The decoders as a state machine: Init draws the inputs, each action is  *)
(* a call.                                                                 *)
(***************************************************************************)
InitDecode ==
    /\ item_code \in ItemCodes
    /\ description \in Descriptions
    /\ parsed_info = None
    /\ dimensions = None
    /\ width = None
    /\ NoImport
    /\ NoHarness
    /\ NoMigration
    /\ NoTester
    /\ NoNormalize

\* a call of CabinetCSVImporter.parse_item_code(item_code)
ParseItemCode ==
    /\ parsed_info' = Some(parse_item_code(item_code))
    /\ UNCHANGED <<item_code, description, dimensions, width, importVars, harnessVars, normalizeVars, migrationVars, testerVars>>

\* a call of CabinetDataImporter.parse_dimensions(item_code, description)
ParseDimensions ==
    /\ dimensions' = Some(parse_dimensions(item_code, description))
    /\ UNCHANGED <<item_code, description, parsed_info, width, importVars, harnessVars, normalizeVars, migrationVars, testerVars>>

\* the width extraction of simple_import's main for item_code
SimpleImportWidth ==
    /\ width' = Some(simple_import_width(item_code))
    /\ UNCHANGED <<item_code, description, parsed_info, dimensions, importVars, harnessVars, normalizeVars, migrationVars, testerVars>>

NextDecode == ParseItemCode \/ ParseDimensions \/ SimpleImportWidth

SpecDecode == InitDecode /\ [][NextDecode]_vars

(***************************************************************************)
(* The imports as a state machine: an import starts on a new connection,   *)
(* reads its CSV file row by row and ends; then another may start.  Each   *)
(* row and the statement of it that the database rejects, if any, are      *)
(* inputs.                                                                 *)
(***************************************************************************)
\* rows per CSV file
MaxRows == 2

\* imports, one after another
MaxRuns == 2

NoPrices == [col \in {price_columns[i] : i \in 1..Len(price_columns)} |-> None]

Row(code, color, desc, prices) ==
    [item_code |-> code, color_option |-> color, description |-> desc, prices |-> prices]

\* the rows of the CSV files: a row without item code, one of an unknown
\* color, two rows of one item code with different descriptions, and a
\* left/right code with a zero price
Rows ==
    { Row(<<>>, "WHITE", <<"V", "a", "n", "i", "t", "y", " ", "2", "1", "D">>, NoPrices),
      Row(<<"W", "3", "6", "3", "0">>, "BLUE",
          <<"W", "a", "l", "l", " ", "C", "a", "b", "i", "n", "e", "t", " ", "3", "0", "H", " ", "1", "2", "\"", "D">>,
          [NoPrices EXCEPT !["Price with Plywood Box"] = Some(100)]),
      Row(<<"W", "3", "6", "3", "0">>, "WHITE",
          <<"W", "a", "l", "l", " ", "C", "a", "b", "i", "n", "e", "t", " ", "3", "0", "H", " ", "1", "2", "\"", "D">>,
          [NoPrices EXCEPT !["Price with Plywood Box"] = Some(100)]),
      Row(<<"W", "3", "6", "3", "0">>, "WHITE",
          <<"B", "a", "s", "e", " ", "C", "a", "b", "i", "n", "e", "t", " ", "F", "u", "l", "l", " ", "D", "o", "o", "r">>,
          NoPrices),
      Row(<<"B", "2", "4", "F", "D", "-", "L", "/", "R">>, "WHITE",
          <<"B", "a", "s", "e", " ", "C", "a", "b", "i", "n", "e", "t", " ", "F", "u", "l", "l", " ", "D", "o", "o", "r">>,
          [NoPrices EXCEPT !["Price with Plywood Box"] = Some(0),
                           !["UV Birch Plywood"] = Some(120)]) }

\* the statement of a row that the database rejects
Faults == {"none", "select_product", "insert_product", "select_variant",
           "insert_variant", "insert_pricing"}

InitImport ==
    /\ item_code = <<>>
    /\ description = <<>>
    /\ parsed_info = None
    /\ dimensions = None
    /\ width = None
    /\ NoImport
    /\ NoHarness
    /\ NoMigration
    /\ NoTester
    /\ NoNormalize

\* import_cabinet_csv.main up to the row loop: a new importer, connect,
\* load_reference_data, and import_csv_file opens a CSV file of n rows
StartCabinetCSV(dry, n) ==
    /\ script = "idle"
    /\ runs < MaxRuns
    /\ script' = "import_cabinet_csv"
    /\ dry_run' = dry
    /\ csv_len' = n
    /\ row_num' = 0
    /\ stats' = CabinetCSVImporterStats
    /\ errors' = 0
    /\ products_inserted' = {}
    /\ db' = committed
    /\ tx_failed' = FALSE
    /\ runs' = runs + 1
    /\ outcome' = "running"
    /\ UNCHANGED <<decodeVars, harnessVars, normalizeVars, migrationVars, testerVars, committed>>

\* the importer and the database after a turn of the loop that ended in r
CabinetCSVAfterRow(r) ==
    /\ db' = r.ctx.db
    /\ stats' = r.ctx.stats
    /\ tx_failed' = r.ctx.tx_failed
    /\ committed' = r.committed

\* one turn of the row loop of import_csv_file
CabinetCSVRow(row, fault) ==
    /\ script = "import_cabinet_csv"
    /\ row_num < csv_len
    /\ CabinetCSVAfterRow(
           import_csv_file_row([db |-> db, stats |-> stats, tx_failed |-> tx_failed],
                               committed, dry_run, row_num + 1, row, fault))
    /\ row_num' = row_num + 1
    /\ UNCHANGED <<decodeVars, harnessVars, normalizeVars, migrationVars, testerVars, script, dry_run, csv_len, errors, products_inserted,
                   runs, outcome>>

\* the end of import_csv_file and of main: the final commit, print_summary,
\* disconnect
FinishCabinetCSV ==
    /\ script = "import_cabinet_csv"
    /\ row_num = csv_len
    /\ committed' = IF dry_run \/ tx_failed THEN committed ELSE db
    /\ db' = committed'
    /\ tx_failed' = FALSE
    /\ script' = "idle"
    /\ outcome' = "completed"
    /\ UNCHANGED <<decodeVars, harnessVars, normalizeVars, migrationVars, testerVars, dry_run, csv_len, row_num, stats, errors,
                   products_inserted, runs>>

\* import_csv_data.main up to the row loop: a new importer, connect, and
\* import_csv_data reads a CSV file of n rows, inserts and commits the lookup
\* data, the cabinet types and the colors of the file
StartCsvData(n) ==
    /\ script = "idle"
    /\ runs < MaxRuns
    /\ script' = "import_csv_data"
    /\ dry_run' = FALSE
    /\ csv_len' = n
    /\ row_num' = 0
    /\ stats' = [CabinetDataImporterStats EXCEPT !.csv_rows = n]
    /\ errors' = 0
    /\ products_inserted' = {}
    /\ db' = committed
    /\ tx_failed' = FALSE
    /\ runs' = runs + 1
    /\ outcome' = "running"
    /\ UNCHANGED <<decodeVars, harnessVars, normalizeVars, migrationVars, testerVars, committed>>

\* the importer and the database after a turn of the loop that ended in c
CsvDataAfterRow(c) ==
    /\ db' = c.db
    /\ stats' = c.stats
    /\ tx_failed' = c.tx_failed
    /\ errors' = c.errors
    /\ products_inserted' = c.products_inserted

\* one turn of the row loop of import_csv_data
CsvDataRow(row, fault) ==
    /\ script = "import_csv_data"
    /\ row_num < csv_len
    /\ CsvDataAfterRow(
           import_csv_data_row(
               [db |-> db, stats |-> stats, tx_failed |-> tx_failed,
                errors |-> errors, products_inserted |-> products_inserted],
               row, fault))
    /\ row_num' = row_num + 1
    /\ UNCHANGED <<decodeVars, harnessVars, normalizeVars, migrationVars, testerVars, script, dry_run, csv_len, committed, runs, outcome>>

\* the end of import_csv_data and of main: the inventory insert, the commit,
\* print_stats, disconnect.  In an aborted transaction the insert raises,
\* main exits with status 1 and nothing of the rows is committed.
FinishCsvData ==
    /\ script = "import_csv_data"
    /\ row_num = csv_len
    /\ committed' = IF tx_failed THEN committed
                    ELSE [db EXCEPT !.inventory = @ \cup {v.id : v \in db.variants}]
    /\ db' = committed'
    /\ outcome' = IF tx_failed THEN "failed" ELSE "completed"
    /\ tx_failed' = FALSE
    /\ script' = "idle"
    /\ UNCHANGED <<decodeVars, harnessVars, normalizeVars, migrationVars, testerVars, dry_run, csv_len, row_num, stats, errors,
                   products_inserted, runs>>

NextImport ==
    \/ \E dry \in BOOLEAN, n \in 0..MaxRows : StartCabinetCSV(dry, n)
    \/ \E row \in Rows, fault \in Faults : CabinetCSVRow(row, fault)
    \/ FinishCabinetCSV
    \/ \E n \in 0..MaxRows : StartCsvData(n)
    \/ \E row \in Rows, fault \in Faults : CsvDataRow(row, fault)
    \/ FinishCsvData

SpecImport == InitImport /\ [][NextImport]_vars

(***************************************************************************)
(* test_consolidation_function.py: ConsolidationTester.                    *)
(* validate_specific_patterns runs its golden cases against the database   *)
(* function analyze_and_consolidate_cabinet_type, which is not part of the *)
(* scripts: what a query returns is an input.  Widths are in hundredths of *)
(* an inch, so that the tolerance of the comparison can be missed and met. *)
(* A query that raises aborts the transaction of the connection, and every *)
(* later query raises too.                                                 *)
(***************************************************************************)
Validation(code, base, w, doors, drawers) ==
    [item_code |-> code, exp_base |-> base, exp_width |-> w,
     exp_doors |-> doors, exp_drawers |-> drawers]

\* the table 'validations'
validations ==
    << Validation("B30FD", "BFD", 3000, 2, 0),
       Validation("B24FD-L/R", "BFD-LR", 2400, 1, 0),
       Validation("B36", "B", 3600, 2, 1),
       Validation("B18-L/R", "B-LR", 1800, 1, 1),
       Validation("2DB24", "2DB", 2400, 0, 2),
       Validation("W3018", "W", 3000, 2, 0),
       Validation("W1218-L/R", "W-LR", 1200, 1, 0),
       Validation("SB30", "SB", 3000, 2, 0),
       Validation("VSB3021", "VSB", 3000, 2, 0),
       Validation("PC1884", "PC", 1800, 2, 0),
       Validation("PC12-L/R", "PC-LR", 1200, 1, 0) >>

\* '< 0.1', in hundredths of an inch
WidthTolerance == 10

Abs(n) == IF n < 0 THEN 0 - n ELSE n

\* what cur.execute / cur.fetchone give for a case: the query raises, no
\* row, or a row.  The width of a row is None or a number; is_decimal says
\* that the driver hands it over as a Decimal instead of a float.
QueryRaises == [kind |-> "raises"]

NoRow == [kind |-> "no_row"]

QueryResults(v) ==
    {QueryRaises, NoRow} \cup
    [ kind       : {"row"},
      base_type  : {v.exp_base, "B"},
      width      : {None, Some(0), Some(v.exp_width - WidthTolerance),
                    Some(v.exp_width - WidthTolerance + 1), Some(v.exp_width),
                    Some(v.exp_width + WidthTolerance)},
      is_decimal : BOOLEAN,
      doors      : {v.exp_doors, v.exp_doors + 1},
      drawers    : {v.exp_drawers, v.exp_drawers + 1} ]

\* 'width and exp_width'
WidthTruthy(result, v) == result.width # None /\ result.width[1] # 0 /\ v.exp_width # 0

\* the body of the loop if a query that raises were counted nowhere
CaseVerdict_RaiseUncounted(v, result) ==
    IF result.kind = "raises" THEN "error"
    ELSE IF result.kind = "no_row" THEN "failed"
    ELSE IF WidthTruthy(result, v) /\ result.is_decimal THEN "failed"
    ELSE IF /\ result.base_type = v.exp_base
            /\ IF WidthTruthy(result, v)
               THEN Abs(result.width[1] - v.exp_width) < WidthTolerance
               ELSE result.width = Some(v.exp_width)
            /\ result.doors = v.exp_doors
            /\ result.drawers = v.exp_drawers
    THEN "passed" ELSE "failed"

\* the body of the loop for one case: "passed" or "failed".  Subtracting the
\* float exp_width from a Decimal raises TypeError, which the except counts
\* as a failure.
CaseVerdict(v, result) ==
    IF result.kind = "raises" THEN "failed"
    ELSE IF result.kind = "no_row" THEN "failed"
    ELSE IF WidthTruthy(result, v) /\ result.is_decimal THEN "failed"
    ELSE LET base_match   == result.base_type = v.exp_base
             width_match  == IF WidthTruthy(result, v)
                             THEN Abs(result.width[1] - v.exp_width) < WidthTolerance
                             ELSE result.width = Some(v.exp_width)
             door_match   == result.doors = v.exp_doors
             drawer_match == result.drawers = v.exp_drawers
         IN  IF base_match /\ width_match /\ door_match /\ drawer_match
             THEN "passed" ELSE "failed"

InitHarness ==
    /\ item_code = <<>>
    /\ description = <<>>
    /\ parsed_info = None
    /\ dimensions = None
    /\ width = None
    /\ NoImport
    /\ NoHarness
    /\ NoMigration
    /\ NoTester
    /\ NoNormalize

\* validate_specific_patterns up to its loop
StartValidation ==
    /\ harness = "idle"
    /\ harness' = "running"
    /\ case_num' = 0
    /\ passed' = 0
    /\ failed' = 0
    /\ last_result' = None
    /\ UNCHANGED <<decodeVars, importVars, normalizeVars, migrationVars, testerVars>>

\* what the query of the next case may return
NextCaseResults ==
    IF case_num < Len(validations) THEN QueryResults(validations[case_num + 1]) ELSE {}

\* the counters and the connection after a case whose query returned result
AfterCase(result) ==
    /\ passed' = IF CaseVerdict(validations[case_num + 1], result) = "passed"
                 THEN passed + 1 ELSE passed
    /\ failed' = IF CaseVerdict(validations[case_num + 1], result) = "failed"
                 THEN failed + 1 ELSE failed
    /\ last_result' = Some(result)
    /\ harness' = IF result = QueryRaises THEN "aborted" ELSE harness

\* one turn of the loop over validations
ValidateCase ==
    /\ harness \in {"running", "aborted"}
    /\ case_num < Len(validations)
    /\ \E result \in NextCaseResults :
          /\ harness = "aborted" => result = QueryRaises
          /\ AfterCase(result)
    /\ case_num' = case_num + 1
    /\ UNCHANGED <<decodeVars, importVars, normalizeVars, migrationVars, testerVars>>

\* the end of the loop: the totals are printed and returned
FinishValidation ==
    /\ harness \in {"running", "aborted"}
    /\ case_num = Len(validations)
    /\ harness' = "done"
    /\ UNCHANGED <<decodeVars, importVars, normalizeVars, migrationVars, testerVars, case_num, passed, failed, last_result>>

NextHarness == StartValidation \/ ValidateCase \/ FinishValidation

SpecHarness == InitHarness /\ [][NextHarness]_vars

(***************************************************************************)
(* normalize_type_code as a state machine: Init draws the token, the       *)
(* actions call the function on it and on its own result.                  *)
(***************************************************************************)
\* generated type tokens have at most this many characters
MaxTokenLen == 2

\* the keys and the values of type_mapping, a token of the tests that is
\* neither, and the generated tokens (the empty one stands for None too)
TypeTokens ==
    {p[1] : p \in type_mapping} \cup {p[2] : p \in type_mapping}
        \cup {<<"Z", "Q">>} \cup StringsUpTo(MaxTokenLen)

InitNormalize ==
    /\ item_code = <<>>
    /\ description = <<>>
    /\ parsed_info = None
    /\ dimensions = None
    /\ width = None
    /\ NoImport
    /\ NoHarness
    /\ NoMigration
    /\ NoTester
    /\ type_token \in TypeTokens
    /\ normalized = None

\* a call of normalize_type_code(type_token)
NormalizeTypeCode ==
    /\ normalized' = Some(normalize_type_code(type_token))
    /\ UNCHANGED <<decodeVars, importVars, harnessVars, migrationVars, testerVars, type_token>>

\* a call of normalize_type_code on what the last call returned
NormalizeAgain ==
    /\ normalized # None
    /\ type_token' = normalized[1]
    /\ normalized' = Some(normalize_type_code(normalized[1]))
    /\ UNCHANGED <<decodeVars, importVars, harnessVars, migrationVars, testerVars>>

NextNormalize == NormalizeTypeCode \/ NormalizeAgain

SpecNormalize == InitNormalize /\ [][NextNormalize]_vars

(***************************************************************************)
(* Calls of parse_item_code on an importer that is importing: between the  *)
(* turns of the row loop the decoder is called on item codes in any order. *)
(***************************************************************************)
\* the item codes decoded between the rows
InterleavedCodes ==
    { <<"B", "2", "4">>,
      <<"W", "3", "6", "3", "0">>,
      <<"2", "D", "B", "2", "4", "L">>,
      <<"B", "1", "8", "-", "L", "/", "R">>,
      <<"Z", "Q", "9", "9">>,
      <<"B", "3">> }

\* a call of parse_item_code(c) that also counts the call in self.stats
DecodeItemCode_CountsCall(c) ==
    /\ script = "import_cabinet_csv"
    /\ item_code' = c
    /\ parsed_info' = Some(parse_item_code(c))
    /\ stats' = [stats EXCEPT !.total_rows = @ + 1]
    /\ UNCHANGED <<description, dimensions, width, harnessVars, normalizeVars, migrationVars, testerVars,
                   script, dry_run, csv_len, row_num, errors, products_inserted,
                   db, committed, tx_failed, runs, outcome>>

\* a call of parse_item_code(c) on the importer
DecodeItemCode(c) ==
    /\ script = "import_cabinet_csv"
    /\ item_code' = c
    /\ parsed_info' = Some(parse_item_code(c))
    /\ UNCHANGED <<description, dimensions, width, importVars, harnessVars, normalizeVars, migrationVars, testerVars>>

\* the one import of this specification starts
StartInterleaved(dry, n) ==
    /\ runs = 0
    /\ StartCabinetCSV(dry, n)

NextInterleave ==
    \/ \E dry \in BOOLEAN, n \in 0..MaxRows : StartInterleaved(dry, n)
    \/ \E c \in InterleavedCodes : DecodeItemCode(c)
    \/ \E row \in Rows, fault \in Faults : CabinetCSVRow(row, fault)
    \/ FinishCabinetCSV

SpecInterleave == InitImport /\ [][NextInterleave]_vars

(***************************************************************************)
(* run_consolidation_migration.py: main, check_prerequisites and           *)
(* run_migration.  What the database answers, whether a call raises, what  *)
(* the user types and whether the migration file exists are inputs.  log   *)
(* records, in order, the calls made on the connection, the checks that    *)
(* passed and the lines the user typed.                                    *)
(***************************************************************************)
\* the characters str.strip() removes, of those a typed line can hold
Whitespace == {" ", "\t"}

RECURSIVE lstrip(_)
lstrip(s) == IF s # <<>> /\ s[1] \in Whitespace THEN lstrip(Tail(s)) ELSE s

RECURSIVE rstrip(_)
rstrip(s) ==
    IF s # <<>> /\ s[Len(s)] \in Whitespace THEN rstrip(SubSeq(s, 1, Len(s) - 1)) ELSE s

\* s.strip()
strip(s) == rstrip(lstrip(s))

\* input(...) raised EOFError: no line was typed
EOF == <<"EOF">>

\* the lines the user types at a prompt
Responses ==
    { <<"y">>, <<"Y">>, <<" ", "y">>, <<"y", " ">>, <<"n">>, <<"N">>, <<>>,
      <<"y", "e", "s">>, <<"n", "o">> }

\* a test of the answer that accepts every line that starts with y
AnsweredYes_StartsWithY(line) ==
    LET response == lower(strip(line))
    IN  response # <<>> /\ response[1] = "y"

\* response != 'y' is false, for response = input(...).strip().lower()
AnsweredYes(line) == lower(strip(line)) = <<"y">>

\* an entry of log: a call or a check, and a typed line
Ev(name) == [ev |-> name, val |-> <<>>]
Typed(name, line) == [ev |-> name, val |-> line]

\* the entries that the handlers of run_migration and its finally add
RollbackAndClose == <<Ev("rollback"), Ev("close")>>

\* the script goes on at position pc
Goto(pc, newlog, newconn) ==
    /\ migration' = pc
    /\ log' = newlog
    /\ conn' = newconn
    /\ UNCHANGED exit_status

\* the process exits: sys.exit(status) or an uncaught exception
ExitWith(status, newlog, newconn) ==
    /\ migration' = "exited"
    /\ exit_status' = Some(status)
    /\ log' = newlog
    /\ conn' = newconn

\* the exits of check_prerequisites inside its try: finally closes
ExitFromCheck(status, newlog) ==
    ExitWith(status, Append(newlog, Ev("close")), "closed")

\* main up to the call of check_prerequisites
StartMigration ==
    /\ migration = "idle"
    /\ Goto("check_connect", log, conn)
    /\ UNCHANGED <<decodeVars, importVars, harnessVars, normalizeVars, testerVars>>

\* check_prerequisites: connect_db()
ConnectForCheck(ok) ==
    /\ migration = "check_connect"
    /\ IF ok THEN Goto("check_table", Append(log, Ev("connect")), "open")
       ELSE ExitWith(1, log, conn)
    /\ UNCHANGED <<decodeVars, importVars, harnessVars, normalizeVars, testerVars>>

\* check_prerequisites: does the products table exist
CheckTable(answer) ==
    /\ migration = "check_table"
    /\ IF answer = "found"
       THEN Goto("check_products", Append(log, Ev("table_exists")), conn)
       ELSE ExitFromCheck(1, log)
    /\ UNCHANGED <<decodeVars, importVars, harnessVars, normalizeVars, testerVars>>

\* check_prerequisites: does the products table hold a product
CheckProducts(answer) ==
    /\ migration = "check_products"
    /\ IF answer = "some"
       THEN Goto("check_consolidated", Append(log, Ev("has_products")), conn)
       ELSE ExitFromCheck(1, log)
    /\ UNCHANGED <<decodeVars, importVars, harnessVars, normalizeVars, testerVars>>

\* check_prerequisites: is some product already consolidated; if none is,
\* the function returns through its finally
CheckConsolidated(answer) ==
    /\ migration = "check_consolidated"
    /\ CASE answer = "none" ->
                Goto("confirm", log \o <<Ev("none_consolidated"), Ev("close")>>, "closed")
         [] answer = "some" ->
                Goto("ask_continue", Append(log, Ev("some_consolidated")), conn)
         [] OTHER -> ExitFromCheck(1, log)
    /\ UNCHANGED <<decodeVars, importVars, harnessVars, normalizeVars, testerVars>>

\* check_prerequisites: the prompt 'Continue anyway? (y/N): '
AnswerContinue(line) ==
    /\ migration = "ask_continue"
    /\ IF line = EOF THEN ExitFromCheck(1, log)
       ELSE IF AnsweredYes(line)
       THEN Goto("confirm", log \o <<Typed("continue", line), Ev("close")>>, "closed")
       ELSE ExitFromCheck(0, Append(log, Typed("continue", line)))
    /\ UNCHANGED <<decodeVars, importVars, harnessVars, normalizeVars, testerVars>>

\* main: the prompt 'Proceed? (y/N): '; an EOFError is not caught here
AnswerProceed(line) ==
    /\ migration = "confirm"
    /\ IF line = EOF THEN ExitWith(1, log, conn)
       ELSE IF AnsweredYes(line)
       THEN Goto("find_file", Append(log, Typed("proceed", line)), conn)
       ELSE ExitWith(0, Append(log, Typed("proceed", line)), conn)
    /\ UNCHANGED <<decodeVars, importVars, harnessVars, normalizeVars, testerVars>>

\* run_migration: migration_file.exists()
FindMigrationFile(exists) ==
    /\ migration = "find_file"
    /\ IF exists THEN Goto("connect", log, conn)
       ELSE ExitWith(1, log, conn)
    /\ UNCHANGED <<decodeVars, importVars, harnessVars, normalizeVars, testerVars>>

\* run_migration: connect_db()
ConnectForMigration(ok) ==
    /\ migration = "connect"
    /\ IF ok THEN Goto("read_file", Append(log, Ev("connect")), "open")
       ELSE ExitWith(1, log, conn)
    /\ UNCHANGED <<decodeVars, importVars, harnessVars, normalizeVars, testerVars>>

\* run_migration: open and read the migration file
ReadMigrationFile(ok) ==
    /\ migration = "read_file"
    /\ IF ok THEN Goto("execute", log, conn)
       ELSE ExitWith(1, log \o RollbackAndClose, "closed")
    /\ UNCHANGED <<decodeVars, importVars, harnessVars, normalizeVars, testerVars>>

\* cur.execute(migration_sql) whose error is swallowed: the commit follows
ExecuteMigration_SwallowsError(ok) ==
    /\ migration = "execute"
    /\ IF ok THEN Goto("commit", Append(log, Ev("execute")), conn)
       ELSE Goto("commit", log \o <<Ev("execute"), Ev("raised")>>, conn)
    /\ UNCHANGED <<decodeVars, importVars, harnessVars, normalizeVars, testerVars>>

\* run_migration: cur.execute(migration_sql)
ExecuteMigration(ok) ==
    /\ migration = "execute"
    /\ IF ok THEN Goto("commit", Append(log, Ev("execute")), conn)
       ELSE ExitWith(1, log \o <<Ev("execute"), Ev("raised")>> \o RollbackAndClose, "closed")
    /\ UNCHANGED <<decodeVars, importVars, harnessVars, normalizeVars, testerVars>>

\* run_migration: conn.commit()
CommitMigration(ok) ==
    /\ migration = "commit"
    /\ IF ok THEN Goto("summary", Append(log, Ev("commit")), conn)
       ELSE ExitWith(1, log \o <<Ev("commit"), Ev("raised")>> \o RollbackAndClose, "closed")
    /\ UNCHANGED <<decodeVars, importVars, harnessVars, normalizeVars, testerVars>>

\* run_migration: the summary query, the finally, and the end of main
SummaryQuery(ok) ==
    /\ migration = "summary"
    /\ IF ok THEN ExitWith(0, log \o <<Ev("summary"), Ev("close")>>, "closed")
       ELSE ExitWith(1, log \o <<Ev("summary"), Ev("raised")>> \o RollbackAndClose, "closed")
    /\ UNCHANGED <<decodeVars, importVars, harnessVars, normalizeVars, testerVars>>

InitMigration ==
    /\ item_code = <<>>
    /\ description = <<>>
    /\ parsed_info = None
    /\ dimensions = None
    /\ width = None
    /\ NoImport
    /\ NoHarness
    /\ NoMigration
    /\ NoTester
    /\ NoNormalize

NextMigration ==
    \/ StartMigration
    \/ \E ok \in BOOLEAN : ConnectForCheck(ok)
    \/ \E answer \in {"found", "missing", "raises"} : CheckTable(answer)
    \/ \E answer \in {"some", "none", "raises"} : CheckProducts(answer)
    \/ \E answer \in {"some", "none", "raises"} : CheckConsolidated(answer)
    \/ \E line \in Responses \cup {EOF} : AnswerContinue(line)
    \/ \E line \in Responses \cup {EOF} : AnswerProceed(line)
    \/ \E exists \in BOOLEAN : FindMigrationFile(exists)
    \/ \E ok \in BOOLEAN : ConnectForMigration(ok)
    \/ \E ok \in BOOLEAN : ReadMigrationFile(ok)
    \/ \E ok \in BOOLEAN : ExecuteMigration(ok)
    \/ \E ok \in BOOLEAN : CommitMigration(ok)
    \/ \E ok \in BOOLEAN : SummaryQuery(ok)

SpecMigration == InitMigration /\ [][NextMigration]_vars

(***************************************************************************)
(* test_database.py: DatabaseTester and main.  What a test function        *)
(* returns, or that it raises, is an input, as is a failure of connect and *)
(* of print_summary.                                                       *)
(***************************************************************************)
\* run_test calls of a run: the first MaxTests tests of run_all_tests
MaxTests == 4

\* the tests of run_all_tests, in its order
tests ==
    << "Schema Exists", "Tables Exist", "Indexes Exist", "Views Exist",
       "Functions Exist", "Triggers Exist", "Foreign Key Constraints",
       "Check Constraints", "Data Integrity Constraints",
       "Reference Data Populated", "Updated At Triggers",
       "Quote Calculation Triggers", "UUID Generation", "Enum Types",
       "Basic Query Performance" >>

\* the number of tests a run makes
TestsToRun == IF MaxTests < Len(tests) THEN MaxTests ELSE Len(tests)

\* self.test_results of a new DatabaseTester
NewTestResults == [passed |-> 0, failed |-> 0, skipped |-> 0, details |-> <<>>]

\* what a test function does: return a truthy value, a falsy one, or raise
TestOutcomes == {"truthy", "falsy", "raises"}

\* run_test whose except clause records the error but does not count it
run_test_ErrorUncounted(results, test_name, ran) ==
    CASE ran = "truthy" ->
             [results EXCEPT !.passed = @ + 1,
                             !.details = Append(@, [test |-> test_name, status |-> "PASS"])]
      [] ran = "falsy" ->
             [results EXCEPT !.failed = @ + 1,
                             !.details = Append(@, [test |-> test_name, status |-> "FAIL"])]
      [] OTHER ->
             [results EXCEPT !.details = Append(@, [test |-> test_name, status |-> "ERROR"])]

\* self.test_results after run_test(test_name, test_func) whose test_func
\* did ran
run_test(results, test_name, ran) ==
    CASE ran = "truthy" ->
             [results EXCEPT !.passed = @ + 1,
                             !.details = Append(@, [test |-> test_name, status |-> "PASS"])]
      [] ran = "falsy" ->
             [results EXCEPT !.failed = @ + 1,
                             !.details = Append(@, [test |-> test_name, status |-> "FAIL"])]
      [] OTHER ->
             [results EXCEPT !.failed = @ + 1,
                             !.details = Append(@, [test |-> test_name, status |-> "ERROR"])]

InitTester ==
    /\ item_code = <<>>
    /\ description = <<>>
    /\ parsed_info = None
    /\ dimensions = None
    /\ width = None
    /\ NoImport
    /\ NoHarness
    /\ NoMigration
    /\ NoTester
    /\ NoNormalize

\* main: tester = DatabaseTester(...)
StartTester ==
    /\ tester = "idle"
    /\ tester' = "connect"
    /\ test_results' = NewTestResults
    /\ UNCHANGED <<decodeVars, importVars, harnessVars, normalizeVars, migrationVars,
                   test_num, tester_exit>>

\* main: tester.connect(); if it raises, except Exception exits with 1
ConnectTester(ok) ==
    /\ tester = "connect"
    /\ IF ok THEN tester' = "running" /\ UNCHANGED tester_exit
       ELSE tester' = "raised" /\ tester_exit' = Some(1)
    /\ UNCHANGED <<decodeVars, importVars, harnessVars, normalizeVars, migrationVars,
                   test_num, test_results>>

\* run_all_tests: the next self.run_test(...)
RunTest(ran) ==
    /\ tester = "running"
    /\ test_num < TestsToRun
    /\ test_results' = run_test(test_results, tests[test_num + 1], ran)
    /\ test_num' = test_num + 1
    /\ UNCHANGED <<decodeVars, importVars, harnessVars, normalizeVars, migrationVars,
                   tester, tester_exit>>

\* the end of run_all_tests and of main: print_summary, which may raise,
\* then sys.exit by the number of failed tests
FinishTester(ok) ==
    /\ tester = "running"
    /\ test_num = TestsToRun
    /\ IF ok
       THEN /\ tester' = "exited"
            /\ tester_exit' = Some(IF test_results.failed > 0 THEN 1 ELSE 0)
       ELSE /\ tester' = "raised"
            /\ tester_exit' = Some(1)
    /\ UNCHANGED <<decodeVars, importVars, harnessVars, normalizeVars, migrationVars,
                   test_num, test_results>>

NextTester ==
    \/ StartTester
    \/ \E ok \in BOOLEAN : ConnectTester(ok)
    \/ \E ran \in TestOutcomes : RunTest(ran)
    \/ \E ok \in BOOLEAN : FinishTester(ok)

SpecTester == InitTester /\ [][NextTester]_vars

(***************************************************************************)
(* Claims about the decoders, checked under SpecDecode.                    *)
(***************************************************************************)
\* parse_item_code has returned for item_code
Parsed == parsed_info # None

\* the flags a decoded record carries: the value of its 'flags' key, if it
\* has one
Flags(r) == IF "flags" \in DOMAIN r THEN r["flags"] ELSE {}

\* C1: decoding "W3630" yields type W, width 36, height 30, 2 doors,
\* 0 drawers and is_left_right false.
C1_DecodeW3630 ==
    (Parsed /\ item_code = <<"W", "3", "6", "3", "0">>) =>
        /\ parsed_info[1].type_code = <<"W">>
        /\ parsed_info[1].width = Some(36)
        /\ parsed_info[1].height = Some(30)
        /\ parsed_info[1].door_count = 2
        /\ parsed_info[1].drawer_count = 0
        /\ parsed_info[1].is_left_right = FALSE

C1_Witness == Parsed /\ item_code = <<"W", "3", "6", "3", "0">>

\* C2: decoding "2DB24" yields type 2DB, width 24, 0 doors, 2 drawers and
\* is_left_right false.
C2_Decode2DB24 ==
    (Parsed /\ item_code = <<"2", "D", "B", "2", "4">>) =>
        /\ parsed_info[1].type_code = <<"2", "D", "B">>
        /\ parsed_info[1].width = Some(24)
        /\ parsed_info[1].door_count = 0
        /\ parsed_info[1].drawer_count = 2
        /\ parsed_info[1].is_left_right = FALSE

C2_Witness == Parsed /\ item_code = <<"2", "D", "B", "2", "4">>

\* x carries an orientation marker: the literal '-L/R', or a final L or R
\* right after a digit
HasOrientationMarker(x) ==
    \/ Contains(x, LRSuffix)
    \/ /\ EndsWith(x, "L") \/ EndsWith(x, "R")
       /\ Len(x) >= 2
       /\ x[Len(x) - 1] \in Digit

\* item_code is x followed by '-L/R'
IsSuffixed == Len(item_code) >= 4 /\ OccursAt(item_code, LRSuffix, Len(item_code) - 3)

Unsuffixed == Slice(item_code, 1, Len(item_code) - 4)

C4_B3FallsBackToDefaultWidth ==
    (Parsed /\ item_code = <<"B", "3">>) =>
        /\ parsed_info[1].width = Some(DefaultWidth)
        /\ "DimensionOutOfRange" \in Flags(parsed_info[1])

\* C5: decoding "ZQ99" yields the default type B and the record is flagged
\* UnrecognizedTypeToken, which tells it from the record of "B99", whose
\* token is the default type itself.
C5_UnknownTokenFlagged ==
    (Parsed /\ item_code = <<"Z", "Q", "9", "9">>) =>
        /\ parsed_info[1].type_code = <<"B">>
        /\ "UnrecognizedTypeToken" \in Flags(parsed_info[1])
        /\ parsed_info[1] # parse_item_code(<<"B", "9", "9">>)

\* an optional width is unset or within [6,96]
WidthInBounds(w) == w = None \/ (MinWidth <= w[1] /\ w[1] <= MaxWidth)

\* C6: the width each decoder produces is unset or within [6,96].
C6_WidthInBounds ==
    /\ Parsed => WidthInBounds(parsed_info[1].width)
    /\ dimensions # None => WidthInBounds(dimensions[1].width)
    /\ width # None => WidthInBounds(width)

\* no pattern of parse_item_code matches the orientation-stripped item_code
NoPatternMatches == FirstMatch(patterns, StripOrientation(item_code)[1]) = NoMatch

\* C9: the decoded type is never empty; when no pattern matches it is the
\* default B, and width, height and depth are unset.
C9_TypeNeverEmpty ==
    Parsed =>
        /\ parsed_info[1].type_code # None
        /\ NoPatternMatches =>
              /\ parsed_info[1].type_code = <<"B">>
              /\ parsed_info[1].width = None
              /\ parsed_info[1].height = None
              /\ parsed_info[1].depth = None

\* C10: the letter suffix is folded into the type: "B24FD-L/R" decodes to
\* width 24, type BFD, is_left_right true, and "B30FD" to type BFD, which is
\* not the type of "B36".
C10_SuffixFoldedIntoType ==
    /\ (Parsed /\ item_code = <<"B", "2", "4", "F", "D", "-", "L", "/", "R">>) =>
          /\ parsed_info[1].width = Some(24)
          /\ parsed_info[1].type_code = <<"B", "F", "D">>
          /\ parsed_info[1].is_left_right = TRUE
    /\ (Parsed /\ item_code = <<"B", "3", "0", "F", "D">>) =>
          /\ parsed_info[1].type_code = <<"B", "F", "D">>
          /\ parsed_info[1].type_code # parse_item_code(<<"B", "3", "6">>).type_code

(***************************************************************************)
(* Claims about the imports, checked under SpecImport.                     *)
(***************************************************************************)
\* the item codes of the products of database d
ProductCodes(d) == {p.item_code : p \in d.products}

\* database d holds at most one product per item code
OneProductPerItemCode(d) ==
    \A p, q \in d.products : p.item_code = q.item_code => p = q

\* C8: the import is idempotent: no step of an import gives an item code a
\* second product, and the product of every item code that was imported
\* before stays as it is, its cabinet type included.
C8_ImportIdempotent ==
    [][ /\ OneProductPerItemCode(db')
        /\ OneProductPerItemCode(committed')
        /\ \A p \in committed.products : p \in committed'.products /\ p \in db'.products ]_vars

\* a second import has processed a row of an item code that the first one
\* committed
C8_Witness ==
    /\ runs = 2
    /\ row_num >= 1
    /\ \/ /\ script = "import_csv_data"
          /\ products_inserted \cap ProductCodes(committed) # {}
       \/ /\ script = "import_cabinet_csv"
          /\ ~dry_run
          /\ committed.products # {}
          /\ stats.products_created = 0
          /\ stats.pricing_records_created >= 1

\* C11: the failure of one row never aborts the batch: a statement that
\* raised is counted in stats['errors'], and the run goes on to its final
\* commit instead of ending as failed.
C11_RowFailureNeverAbortsBatch ==
    /\ tx_failed => stats.errors >= 1
    /\ outcome # "failed"

\* import_cabinet_csv is running with --dry-run
DryRunning == script = "import_cabinet_csv" /\ dry_run

\* C12: a dry run writes nothing: no step of it changes what the connection
\* sees or what is committed, or aborts or ends a transaction, and the
\* counters of created products, variants and pricing records stay 0.
C12_DryRunWritesNothing ==
    [][ DryRunning =>
          /\ db' = db
          /\ committed' = committed
          /\ tx_failed' = tx_failed
          /\ stats'.products_created = 0
          /\ stats'.variants_created = 0
          /\ stats'.pricing_records_created = 0 ]_vars

\* a dry run over a database that holds products has read a row
C12_Witness ==
    /\ DryRunning
    /\ row_num >= 1
    /\ stats.total_rows = row_num
    /\ committed.products # {}

\* x ends in the literal '-L/R', or in L or R right after a digit
EndsInOrientationMarker(x) ==
    \/ EndsWithLR(x)
    \/ /\ Len(x) >= 2
       /\ x[Len(x)] \in {"L", "R"}
       /\ x[Len(x) - 1] \in Digit

\* the type, width and height that the patterns give for x as it is
MatchedAsIs(x) ==
    IF FirstMatch(patterns, x) # NoMatch THEN ExtractFromGroups(FirstMatch(patterns, x))
    ELSE [type_code |-> None, width |-> None, height |-> None]

\* C13: is_left_right is true only for a code that ends in '-L/R' or in L or
\* R right after a digit; for every other code the flag is false and the
\* patterns see the code unchanged.
C13_FlagOnlyForMarkedCodes ==
    (Parsed /\ ~EndsInOrientationMarker(item_code)) =>
        /\ parsed_info[1].is_left_right = FALSE
        /\ \A f \in {"type_code", "width", "height"} :
              parsed_info[1][f] = MatchedAsIs(item_code)[f]

\* x ends in L or R right after a digit and does not hold '-L/R'
EndsInLetterMarker(x) ==
    /\ ~Contains(x, LRSuffix)
    /\ Len(x) >= 2
    /\ x[Len(x)] \in {"L", "R"}
    /\ x[Len(x) - 1] \in Digit

\* the patterns match x with a type token that type_mapping knows, as a key
\* or as a canonical type
ResolvesToMappedType(x) ==
    /\ FirstMatch(patterns, x) # NoMatch
    /\ \E p \in type_mapping \cup {<<<<"B">>, <<"B">>>>} :
          FirstMatch(patterns, x)[1] \in {p[1], p[2]}

\* C14: a final L or R after a digit is stripped only when the stripped code
\* resolves to a mapped type token; otherwise is_left_right stays false and
\* the patterns see the code with its final letter.
C14_StripOnlyIfResolvable ==
    (/\ Parsed
     /\ EndsInLetterMarker(item_code)
     /\ ~ResolvesToMappedType(Slice(item_code, 1, Len(item_code) - 1))) =>
        /\ parsed_info[1].is_left_right = FALSE
        /\ \A f \in {"type_code", "width", "height"} :
              parsed_info[1][f] = MatchedAsIs(item_code)[f]

(***************************************************************************)
(* Claims about the validation harness, checked under SpecHarness.         *)
(***************************************************************************)
\* the row r has the base type, the door count and the drawer count that
\* the golden case v expects, and a width within the tolerance of v's
RowMatches(r, v) ==
    /\ r.kind = "row"
    /\ r.base_type = v.exp_base
    /\ r.width # None
    /\ Abs(r.width[1] - v.exp_width) < WidthTolerance
    /\ r.doors = v.exp_doors
    /\ r.drawers = v.exp_drawers

\* C15: the harness counts every golden case once, as passed or as failed,
\* also a case whose query raises or returns no row, so that after the loop
\* passed + failed is the number of cases; and a case is counted as passed
\* only if its row matches the expected base type, width, doors and drawers.
C15_EveryCaseCountedOnce ==
    [][ /\ passed' + failed' = case_num'
        /\ harness' = "done" => passed' + failed' = Len(validations)
        /\ passed' > passed => RowMatches(last_result'[1], validations[case_num']) ]_vars

\* the harness has ended with cases that passed, after a last case whose
\* query returned no row
C15_Witness ==
    /\ harness = "done"
    /\ passed >= 1
    /\ failed >= 1
    /\ last_result = Some(NoRow)

(***************************************************************************)
(* Claims about the patterns of parse_item_code, checked under SpecDecode. *)
(***************************************************************************)
\* item_code after the 'L/R variants' step
Stripped == StripOrientation(item_code)[1]

\* the number of letters x begins with
LetterBlock(x) == Run(x, 1, Upper)

\* x is a block of letters followed by exactly four digits
LettersThenFourDigits(x) ==
    /\ LetterBlock(x) >= 1
    /\ Len(x) = LetterBlock(x) + 4
    /\ \A i \in (LetterBlock(x) + 1)..Len(x) : x[i] \in Digit

\* the lists that hold the patterns of parse_item_code in some order
PatternOrders ==
    { [i \in 1..Len(patterns) |-> patterns[p[i]]] : p \in Permutations(1..Len(patterns)) }

\* the type, width and height that a block of letters and four digits stand
\* for
FourDigitFields(x) ==
    [ type_code |-> normalize_type_code(Slice(x, 1, LetterBlock(x))),
      width     |-> Some(int(Slice(x, LetterBlock(x) + 1, LetterBlock(x) + 2))),
      height    |-> Some(int(Slice(x, LetterBlock(x) + 3, LetterBlock(x) + 4))) ]

DigitBlockLen(x) ==
    LET d == Run(x, 1, Digit)
        a == Run(x, d + 1, Upper)
    IN  IF a = 0 THEN 0 ELSE Run(x, d + a + 1, Digit)

\* C17: parse_item_code sets a width only for a digit block of 2, 3 or 4
\* digits; a code whose digit block has five or more digits matches no
\* pattern and its width stays unset.
C17_WidthOnlyForShortDigitBlocks ==
    Parsed =>
        /\ parsed_info[1].width # None => DigitBlockLen(Stripped) \in {2, 3, 4}
        /\ DigitBlockLen(Stripped) >= 5 =>
              /\ NoPatternMatches
              /\ parsed_info[1].width = None

\* x is one digit, a block of letters and digits
DigitLettersDigits(x) ==
    /\ Len(x) >= 3
    /\ x[1] \in Digit
    /\ Run(x, 2, Upper) >= 1
    /\ Run(x, 2 + Run(x, 2, Upper), Digit) >= 1
    /\ 1 + Run(x, 2, Upper) + Run(x, 2 + Run(x, 2, Upper), Digit) = Len(x)

\* the digits that end such an x
TrailingDigits(x) == Slice(x, 2 + Run(x, 2, Upper), Len(x))

\* C18: for a code of the shape digit, letters, digits the leading digit is
\* the drawer count and the trailing digits are the width.
C18_LeadingDigitIsDrawerCount ==
    (Parsed /\ DigitLettersDigits(Stripped)) =>
        /\ parsed_info[1].drawer_count = DigitVal[Stripped[1]]
        /\ parsed_info[1].width = Some(int(TrailingDigits(Stripped)))

(***************************************************************************)
(* Claims about normalize_type_code, checked under SpecNormalize.          *)
(***************************************************************************)
\* the canonical types: the values of type_mapping
CanonicalTypes == {p[2] : p \in type_mapping}

\* the tokens type_mapping knows: its keys
MappedTokens == {p[1] : p \in type_mapping}

\* C19: normalize_type_code returns a canonical type for every token, the
\* default B for a token that type_mapping does not know, and a canonical
\* type unchanged.
C19_NormalizeTotalAndClosed ==
    normalized # None =>
        /\ normalized[1] \in CanonicalTypes
        /\ type_token \notin MappedTokens => normalized[1] = <<"B">>
        /\ type_token \in CanonicalTypes => normalized[1] = type_token

\* normalize_type_code has returned the default for an unknown token
C19_Witness ==
    /\ type_token = <<"Z", "Q">>
    /\ normalized = Some(<<"B">>)

(***************************************************************************)
(* Claims about the drawer-base families, checked under SpecDecode.        *)
(***************************************************************************)
\* the type codes of the drawer-base branch of infer_door_drawer_count
DrawerBaseTypes ==
    {<<"2","D","B">>, <<"3","D","B">>, <<"4","D","B">>, <<"5","D","B">>}

\* C20: a code decoded to a drawer-base type (2DB, 3DB, 4DB, 5DB) has the
\* leading digit of the type as its drawer_count and a door_count of 0.
C20_DrawerBaseCounts ==
    (Parsed /\ parsed_info[1].type_code \in DrawerBaseTypes) =>
        /\ parsed_info[1].drawer_count = DigitVal[parsed_info[1].type_code[1]]
        /\ parsed_info[1].door_count = 0

\* a code has been decoded to the four-drawer base
C20_Witness ==
    /\ Parsed
    /\ parsed_info[1].type_code = <<"4","D","B">>
    /\ parsed_info[1].drawer_count = 4

(***************************************************************************)
(* Claims about the door and drawer counts of the other families, checked  *)
(* under SpecDecode.                                                       *)
(***************************************************************************)
\* C21: a code decoded to the base type with a width set has a door_count
\* of 1 if the decoded width is below 24 and of 2 otherwise, and a
\* drawer_count of 0.
C21_BaseDoorsFollowDecodedWidth ==
    (/\ Parsed
     /\ parsed_info[1].type_code = <<"B">>
     /\ parsed_info[1].width # None) =>
        /\ parsed_info[1].door_count =
               (IF parsed_info[1].width[1] < 24 THEN 1 ELSE 2)
        /\ parsed_info[1].drawer_count = 0

\* the fixed door table of the types outside the base and drawer-base
\* families
DoorTable(t) ==
    IF t = <<"W">> THEN 2
    ELSE IF t \in {<<"F">>, <<"P","N","L">>, <<"T","K">>, <<"D">>} THEN 0
    ELSE 1

\* the decoded types outside the base and drawer-base families
OtherTypes == CanonicalTypes \ ({<<"B">>} \cup DrawerBaseTypes)

FirstCharIs(x, c) == Len(x) >= 1 /\ x[1] = c

\* the default depth of an item code: by its first character
DefaultDepth(x) ==
    IF FirstCharIs(x, "B") THEN Some(24)
    ELSE IF FirstCharIs(x, "W") THEN Some(12)
    ELSE IF FirstCharIs(x, "V") THEN Some(21)
    ELSE None

\* the description holds a depth: digits followed by D or by a quote and D
DepthInDescription == SearchDigitsD(description) # None

\* C23: parse_dimensions gives a default depth only when the description
\* holds none: 24 for a code that starts with B, 12 for W, 21 for V, unset
\* for any other code; a depth of the description is kept.
C23_DefaultDepthOnlyWhenNoneExtracted ==
    dimensions # None =>
        IF DepthInDescription
        THEN dimensions[1].depth = Some(int(SearchDigitsD(description)[1]))
        ELSE dimensions[1].depth = DefaultDepth(item_code)

\* parse_dimensions has kept the depth of the description for a base code
C23_Witness ==
    /\ dimensions # None
    /\ FirstCharIs(item_code, "B")
    /\ DepthInDescription
    /\ dimensions[1].depth = Some(12)

(***************************************************************************)
(* Claims about the decode path on a running importer, checked under       *)
(* SpecInterleave.                                                         *)
(***************************************************************************)
\* a step in which parse_item_code returned
DecodeReturned == parsed_info' # parsed_info \/ item_code' # item_code

\* C24: a call of parse_item_code leaves the importer's counters, its
\* database connection and everything else of the importer as they were,
\* and what it returned for a code is what decoding the code returns at any
\* later point of the import, whatever was decoded or imported in between.
C24_DecodeIsStateless ==
    [][ /\ DecodeReturned => UNCHANGED importVars
        /\ parsed_info' # None => parsed_info' = Some(parse_item_code(item_code'))
      ]_vars

\* a code was decoded after a row that failed and one that created a product
C24_Witness ==
    /\ script = "import_cabinet_csv"
    /\ parsed_info # None
    /\ item_code = <<"Z", "Q", "9", "9">>
    /\ stats.errors >= 1
    /\ stats.products_created >= 1

(***************************************************************************)
(* Claims about run_consolidation_migration.py, checked under              *)
(* SpecMigration.                                                          *)
(***************************************************************************)
\* the typed line is the letter y, in either case, alone but for blanks
IsYes(line) ==
    \E i \in 1..Len(line) :
        /\ line[i] \in {"y", "Y"}
        /\ \A j \in 1..Len(line) : j # i => line[j] \in Whitespace

\* the entry at position i of log is the event name
At(i, name) == i \in 1..Len(log) /\ log[i].ev = name

\* before position k of log the four gates were passed, in order
GatesPassedBefore(k) ==
    \E a, b, c, d \in 1..Len(log) :
        /\ a < b /\ b < c /\ c < d /\ d < k
        /\ At(a, "table_exists")
        /\ At(b, "has_products")
        /\ \/ At(c, "none_consolidated")
           \/ At(c - 1, "some_consolidated") /\ At(c, "continue") /\ IsYes(log[c].val)
        /\ At(d, "proceed") /\ IsYes(log[d].val)

\* the migration SQL was handed to the database
MigrationExecuted == \E k \in 1..Len(log) : At(k, "execute")

\* a prompt was answered with something else than y
Refused == \E i \in 1..Len(log) : log[i].ev \in {"continue", "proceed"} /\ ~IsYes(log[i].val)

\* C25: the migration SQL is executed only after the gates were passed in
\* order: the products table exists, it holds a product, the user answered
\* y to 'Continue anyway?' if some product is already consolidated, and the
\* user answered y to 'Proceed?'.  A refused prompt ends the process with
\* status 0 and nothing executed.
C25_MigrationOnlyAfterGates ==
    /\ \A k \in 1..Len(log) : At(k, "execute") => GatesPassedBefore(k)
    /\ Refused => /\ migration = "exited"
                  /\ exit_status = Some(0)
                  /\ ~MigrationExecuted

\* the migration ran after 'Continue anyway?' was answered with a capital Y
C25_Witness ==
    /\ MigrationExecuted
    /\ \E i \in 1..Len(log) : At(i, "continue") /\ log[i].val = <<"Y">>

\* the call at position i of log raised
RaisedAt(i) == At(i + 1, "raised")

\* connections opened and closed so far
Opened == Cardinality({i \in 1..Len(log) : At(i, "connect")})
Closed == Cardinality({i \in 1..Len(log) : At(i, "close")})

\* C26: run_migration commits only directly after the migration SQL
\* executed without error; if the SQL or the summary query raises, a
\* rollback follows, then the close, and the process exits with status 1;
\* whenever the process has exited, every connection it opened is closed.
C26_CommitOnlyAfterExecute ==
    /\ \A k \in 1..Len(log) : At(k, "commit") => At(k - 1, "execute")
    /\ \A i \in 1..Len(log) :
           (log[i].ev \in {"execute", "summary"} /\ RaisedAt(i)) =>
               /\ At(i + 2, "rollback")
               /\ At(i + 3, "close")
               /\ Len(log) = i + 3
               /\ migration = "exited"
               /\ exit_status = Some(1)
    /\ migration = "exited" => conn # "open" /\ Opened = Closed

\* the summary query raised after the commit
C26_Witness ==
    /\ migration = "exited"
    /\ \E k \in 1..Len(log) : At(k, "commit") /\ At(k + 1, "summary") /\ RaisedAt(k + 1)
    /\ exit_status = Some(1)

(***************************************************************************)
(* Claims about the counters and the order of import_cabinet_csv.py,       *)
(* checked under SpecImport.                                               *)
(***************************************************************************)
\* the first import was one of import_cabinet_csv without --dry-run, and
\* import_csv_file has returned
FirstCabinetImportDone ==
    /\ runs = 1
    /\ script = "idle"
    /\ outcome = "completed"
    /\ "products_created" \in DOMAIN stats
    /\ ~dry_run

\* C27: after import_csv_file without --dry-run has completed,
\* stats['products_created'] is the number of products of this run that the
\* database holds after the final commit.  For the first import on an
\* empty database these are all the products it holds.
C27_ProductsCreatedArePersisted ==
    FirstCabinetImportDone =>
        stats.products_created = Cardinality(committed.products)

\* the rows of the CSV files and a row without color option
RowsAndBlankColor ==
    Rows \cup {Row(<<"W", "3", "6", "3", "0">>, "", <<>>,
                   [NoPrices EXCEPT !["Price with Plywood Box"] = Some(100)])}

\* process_row must skip the row
MustSkip(row) ==
    \/ row.item_code = <<>>
    \/ row.color_option = ""
    \/ row.color_option \notin color_options_cache

\* the importer as process_row finds it
ImporterNow == [db |-> db, stats |-> stats, tx_failed |-> tx_failed]

\* after process_row left r, every variant that is new belongs to the
\* product of the row's item code, and every pricing record that is new to
\* the variant of that product and of the row's color
InDependencyOrder(r, row) ==
    LET d == r.ctx.db
    IN  /\ \A v \in d.variants \ db.variants :
               /\ v.color_option_id = row.color_option
               /\ \E p \in d.products : p.id = v.product_id /\ p.item_code = row.item_code
        /\ \A pr \in d.pricing \ db.pricing :
               \E v \in d.variants :
                   /\ v.id = pr.product_variant_id
                   /\ v.color_option_id = row.color_option
                   /\ \E p \in d.products : p.id = v.product_id /\ p.item_code = row.item_code

\* C28: process_row creates records in dependency order.  Whatever row the
\* importer reads next and whatever statement fails: a row without item
\* code, without color option or of an unknown color leaves the importer
\* and the database as they are; a new variant belongs to the product that
\* get_or_create_product returned for the row, a new pricing record to the
\* variant that get_or_create_variant returned for it.
C28_RecordsInDependencyOrder ==
    (script = "import_cabinet_csv" /\ row_num < csv_len) =>
        \A row \in RowsAndBlankColor, fault \in Faults :
            /\ MustSkip(row) =>
                   process_row(ImporterNow, dry_run, row, fault) =
                       [ctx |-> ImporterNow, raised |-> FALSE]
            /\ InDependencyOrder(process_row(ImporterNow, dry_run, row, fault), row)

\* a row has given a product a variant and the variant a pricing record,
\* and another row is to come
C28_Witness ==
    /\ script = "import_cabinet_csv"
    /\ row_num < csv_len
    /\ ~dry_run
    /\ \E pr \in db.pricing : \E v \in db.variants : \E p \in db.products :
           v.id = pr.product_variant_id /\ p.id = v.product_id

\* the statistics are those of a CabinetCSVImporter
CabinetCSVStats == "duplicates_skipped" \in DOMAIN stats

\* C29: stats['duplicates_skipped'] of CabinetCSVImporter is 0 in every
\* state: nothing adds to it, not even a product or a variant that is found
\* instead of created.
C29_DuplicatesSkippedStaysZero ==
    CabinetCSVStats => stats.duplicates_skipped = 0

\* a row of the second import found the product and the variant that the
\* first import committed, and created neither
C29_Witness ==
    /\ script = "import_cabinet_csv"
    /\ ~dry_run
    /\ runs = 2
    /\ stats.total_rows >= 1
    /\ stats.errors = 0
    /\ committed.variants # {}
    /\ stats.products_created = 0
    /\ stats.variants_created = 0
    /\ stats.pricing_records_created >= 1

(***************************************************************************)
(* Claims about test_database.py, checked under SpecTester.                *)
(***************************************************************************)
\* a step that is one call of run_test
RunTestStep == test_num' = test_num + 1

\* the last entry of the details of results
LastDetail(results) == results.details[Len(results.details)]

\* C30: every run_test call adds 1 to exactly one of passed and failed and
\* appends exactly one details entry, a test that raises counting as
\* failed; so passed + failed is the number of details entries, and skipped
\* stays 0.  The process exits with status 1 if and only if a test failed
\* or the run itself raised.
C30_EveryTestCountedOnce ==
    [][ test_results' # <<>> =>
          /\ test_results'.passed + test_results'.failed = Len(test_results'.details)
          /\ Len(test_results'.details) = test_num'
          /\ test_results'.skipped = 0
          /\ RunTestStep =>
                 /\ Len(test_results'.details) = Len(test_results.details) + 1
                 /\ SubSeq(test_results'.details, 1, test_num) = test_results.details
                 /\ IF LastDetail(test_results').status = "PASS"
                    THEN /\ test_results'.passed = test_results.passed + 1
                         /\ test_results'.failed = test_results.failed
                    ELSE /\ test_results'.passed = test_results.passed
                         /\ test_results'.failed = test_results.failed + 1
          /\ tester_exit' # None =>
                 (tester_exit' = Some(1) <=>
                      (test_results'.failed > 0 \/ tester' = "raised"))
          /\ tester_exit' # None => tester_exit' \in {Some(0), Some(1)}
      ]_vars

\* a run in which a test raised and another passed has exited with 1
C30_Witness ==
    /\ tester = "exited"
    /\ tester_exit = Some(1)
    /\ test_results.passed >= 1
    /\ \E i \in 1..Len(test_results.details) : test_results.details[i].status = "ERROR"

====
